---- MODULE Spec2Model ----
(***************************************************************************)
(* A model of the decision-and-execution core of autoTrade:                *)
(*   - core/execution/exchange.py   CircuitBreaker, BinanceSpot/Margin     *)
(*                                  place_order under tenacity's retry     *)
(*   - core/execution/live_trader.py LiveTrader position bookkeeping       *)
(*   - strategies/strategy_factory.py StrategyFactory registry and the     *)
(*                                  lru_cache'd create_strategy            *)
(*   - bot.py                       TradingBot main loop and shutdown      *)
(*   - strategies/combined_signal.py CombinedStrategy, notifications,      *)
(*                                  Backtester (src/src)                   *)
(* Several specifications share the module, one per component.  Each       *)
(* holds the other components' variables fixed.                            *)
(***************************************************************************)
EXTENDS Integers, Sequences, FiniteSets, TLC

\* ------------------------------------------------------------- bounds
\* largest circuit_breaker_threshold the exchange is configured with
MaxThreshold == 3
\* place_order calls made over one session (all tasks together)
MaxCalls == 3

\* ------------------------------------------------ program constants
\* @retry(stop=stop_after_attempt(3), ...)            exchange.py:150
StopAfterAttempt == 3

\* the per-symbol tasks that share one exchange object (live_trader.py:165)
Tasks == {"BTC/USDT", "ETH/USDT"}

VARIABLES
    \* CircuitBreaker fields (exchange.py:64-67)
    failure_count, threshold, state,
    \* class of the exchange object: "BinanceSpot" or "BinanceMargin"
    exchange_class,
    \* one place_order coroutine per task: where it is suspended, tenacity's
    \* attempt_number, and what the call handed to its caller
    pc, attempt_number, outcome,
    \* observation of the run: create_order calls of the current call, whether
    \* the breaker was open when the call started, number of calls started,
    \* number of attempts that ended with an exception, last is_open() answer
    submitted, open_at_start, calls, failed_attempts, last_query

exchange_vars == <<failure_count, threshold, state, exchange_class, pc,
                   attempt_number, outcome, submitted, open_at_start, calls,
                   failed_attempts, last_query>>


\* ------------------------------------------------- CircuitBreaker
\* is_open(): self.state == "OPEN"
is_open(st) == st = "OPEN"

\* mutant of StateAfterFailure: off-by-one comparison
StateAfterFailure_Strict(fc, thr, st) == IF fc > thr THEN "OPEN" ELSE st

\* record_failure(), the state it leaves given the incremented count
StateAfterFailure(fc, thr, st) == IF fc >= thr THEN "OPEN" ELSE st

\* mutant of CountAfterFailure: a failure recorded while the count is
\* already 1 writes 1 again (the update of another task is overwritten)
CountAfterFailure_Overwritten(fc) == IF fc = 1 THEN 1 ELSE fc + 1

\* mutant of CountAfterFailure: the increment is lost
CountAfterFailure_Lost(fc) == fc

\* record_failure(), the count it leaves: self.failure_count += 1
CountAfterFailure(fc) == fc + 1

record_failure ==
    /\ failure_count' = CountAfterFailure(failure_count)
    /\ state' = StateAfterFailure(CountAfterFailure(failure_count), threshold, state)

\* ------------------------------------------------- tenacity retry
\* mutant of ShouldStop: the stop condition never fires
ShouldStop_Never(n) == FALSE

\* stop_after_attempt(3): stop once attempt_number >= 3
ShouldStop(n) == n >= StopAfterAttempt

\* mutant of Gate: the breaker check is skipped
Gate_Skipped(st) == FALSE

\* place_order line 161: if self.circuit_breaker.is_open(): raise
Gate(st) == is_open(st)

\* An attempt n of task t ended with an exception inside the try block:
\* the except clause records the failure and re-raises; tenacity then
\* either sleeps before the next attempt or gives up with RetryError.
FailAttempt(t, n) ==
    /\ record_failure
    /\ failed_attempts' = failed_attempts + 1
    /\ attempt_number' = [attempt_number EXCEPT ![t] = n]
    /\ IF ShouldStop(n)
       THEN /\ pc' = [pc EXCEPT ![t] = "done"]
            /\ outcome' = [outcome EXCEPT ![t] = "RetryError"]
       ELSE /\ pc' = [pc EXCEPT ![t] = "backoff"]
            /\ outcome' = outcome

\* Attempt n of task t runs from the top of the try block up to its first
\* suspension point (the await of fetch_ticker in _calculate_order_params).
RunAttempt(t, n) ==
    IF Gate(state)
    THEN FailAttempt(t, n)
    ELSE /\ pc' = [pc EXCEPT ![t] = "fetch_ticker"]
         /\ attempt_number' = [attempt_number EXCEPT ![t] = n]
         /\ UNCHANGED <<failure_count, state, failed_attempts, outcome>>

\* what create_order can hand back: a fill, a result without a fill, nothing
OrderResults == {"filled", "no_fill", "none"}

CanCall(t) == pc[t] \in {"idle", "done"} /\ calls < MaxCalls

StartCall(t) ==
    /\ calls' = calls + 1
    /\ open_at_start' = [open_at_start EXCEPT ![t] = is_open(state)]

\* BinanceSpot.place_order is called: the first attempt starts at once
PlaceOrderSpot(t) ==
    /\ exchange_class = "BinanceSpot"
    /\ CanCall(t)
    /\ StartCall(t)
    /\ submitted' = [submitted EXCEPT ![t] = 0]
    /\ RunAttempt(t, 1)
    /\ UNCHANGED <<threshold, exchange_class, last_query>>

\* BinanceMargin.place_order is called: it first awaits fetch_balance
PlaceOrderMargin(t) ==
    /\ exchange_class = "BinanceMargin"
    /\ CanCall(t)
    /\ StartCall(t)
    /\ submitted' = [submitted EXCEPT ![t] = 0]
    /\ pc' = [pc EXCEPT ![t] = "fetch_balance"]
    /\ attempt_number' = [attempt_number EXCEPT ![t] = 0]
    /\ UNCHANGED <<failure_count, threshold, state, exchange_class, outcome,
                   failed_attempts, last_query>>

\* _check_margin_health returns: healthy goes on to super().place_order,
\* otherwise ExchangeError (or fetch_balance's error) leaves the call
\* outside the retried body, so nothing is recorded.
MarginHealthReturn(t) ==
    /\ pc[t] = "fetch_balance"
    /\ \E healthy \in BOOLEAN :
         IF healthy
         THEN RunAttempt(t, 1)
         ELSE /\ pc' = [pc EXCEPT ![t] = "done"]
              /\ outcome' = [outcome EXCEPT ![t] = "ExchangeError"]
              /\ UNCHANGED <<failure_count, state, failed_attempts, attempt_number>>
    /\ UNCHANGED <<threshold, exchange_class, submitted, open_at_start, calls,
                   last_query>>

\* fetch_ticker returns: on a price the order parameters are computed and
\* create_order is called (the next suspension point); on an error the
\* attempt fails.
TickerReturn(t) ==
    /\ pc[t] = "fetch_ticker"
    /\ \E ok \in BOOLEAN :
         IF ok
         THEN /\ pc' = [pc EXCEPT ![t] = "create_order"]
              /\ submitted' = [submitted EXCEPT ![t] = @ + 1]
              /\ UNCHANGED <<failure_count, state, failed_attempts,
                             attempt_number, outcome>>
         ELSE /\ FailAttempt(t, attempt_number[t])
              /\ submitted' = submitted
    /\ UNCHANGED <<threshold, exchange_class, open_at_start, calls, last_query>>

\* create_order returns: its result is place_order's result, its error
\* fails the attempt.
CreateOrderReturn(t) ==
    /\ pc[t] = "create_order"
    /\ \E r \in OrderResults \cup {"raise"} :
         IF r = "raise"
         THEN FailAttempt(t, attempt_number[t])
         ELSE /\ pc' = [pc EXCEPT ![t] = "done"]
              /\ outcome' = [outcome EXCEPT ![t] = r]
              /\ UNCHANGED <<failure_count, state, failed_attempts, attempt_number>>
    /\ UNCHANGED <<threshold, exchange_class, submitted, open_at_start, calls,
                   last_query>>

\* tenacity's sleep between attempts ends: the next attempt starts
Backoff(t) ==
    /\ pc[t] = "backoff"
    /\ RunAttempt(t, attempt_number[t] + 1)
    /\ UNCHANGED <<threshold, exchange_class, submitted, open_at_start, calls,
                   last_query>>

\* a caller asks circuit_breaker.is_open() (bot.py:209, exchange.py:107)
IsOpenQuery ==
    /\ last_query' = IF is_open(state) THEN "open" ELSE "closed"
    /\ last_query' # last_query
    /\ UNCHANGED <<failure_count, threshold, state, exchange_class, pc,
                   attempt_number, outcome, submitted, open_at_start, calls,
                   failed_attempts>>

ExchangeInit ==
    /\ failure_count = 0
    /\ state = "CLOSED"
    /\ threshold \in 1..MaxThreshold
    /\ exchange_class \in {"BinanceSpot", "BinanceMargin"}
    /\ pc = [t \in Tasks |-> "idle"]
    /\ attempt_number = [t \in Tasks |-> 0]
    /\ outcome = [t \in Tasks |-> "none"]
    /\ submitted = [t \in Tasks |-> 0]
    /\ open_at_start = [t \in Tasks |-> FALSE]
    /\ calls = 0
    /\ failed_attempts = 0
    /\ last_query = "unknown"

\* =====================================================================
\* LiveTrader (core/execution/live_trader.py)
\* =====================================================================
\* Quantities are counted in units of 0.00001 (the fallback minimum order
\* size), money in whole units of the quote currency.
QtyScale == 100000

\* risk_percentage=0.1, written as the divisor 1/0.1 (live_trader.py:8)
RiskDivisor == 10

\* fallback minimum notional value when the exchange gives none
FallbackMinNotional == 10

\* fallback minimum order size 0.00001, in quantity units
FallbackMinOrderSize == 1

Symbols == Tasks

\* Python's None and a present value
None == <<>>
Some(v) == <<v>>
Val(o) == o[1]

\* inputs of the model: latest prices, free quote balances, exchange limits
Prices == {50, 100, 200}
Balances == {0}
MinNotionals == {None}
MinOrderSizes == {None, Some(50000)}
SmaValues == {0, 100, 300}
Signals == {"buy", "sell", "hold"}

VARIABLES
    \* LiveTrader fields (live_trader.py:22-24), one entry per symbol
    positions, entry_prices, trailing_stop_loss,
    \* the last LiveTrader operation that ran: its name, symbol, the side and
    \* amount of the order it sent ("none" if it sent none), what came back
    last_op,
    \* what the last execute_trade call was given: the signal, the price, the
    \* size calculate_position_size returned, whether the price was below
    \* the 50-period SMA
    last_trade

trader_vars == <<positions, entry_prices, trailing_stop_loss, last_op, last_trade>>

\* current_price * 0.98 (live_trader.py:143) and current_price * (1 - 0.02)
\* (live_trader.py:32-33)
StopBelow(price) == (price * 98) \div 100

Max(a, b) == IF a >= b THEN a ELSE b

\* calculate_position_size: 0 on an invalid balance response, else the
\* risk-scaled size raised to the minimum notional and minimum order size
calculate_position_size(balance, min_order_size, min_notional, current_price) ==
    IF balance = None
    THEN 0
    ELSE LET mos == IF min_order_size = None THEN FallbackMinOrderSize
                    ELSE Val(min_order_size)
             mn  == IF min_notional = None THEN FallbackMinNotional
                    ELSE Val(min_notional)
             raw == (Val(balance) * QtyScale) \div (RiskDivisor * current_price)
             sized == IF raw * current_price < mn * QtyScale
                      THEN (mn * QtyScale) \div current_price
                      ELSE raw
         IN Max(sized, mos)

\* what exchange.execute_trade can come back with: None, an empty dict, a
\* dict without 'filled', a dict whose 'filled' is a number q (kind
\* "filled"), a dict whose 'filled' is null, or an exception
OrderKinds == {"None", "empty", "no_filled_key", "filled", "filled_null", "raise"}

\* the answers to an order for `amount`: each kind, a numeric 'filled' being
\* nothing, one quantity unit, or the whole amount
OrderAnswers(amount) ==
    {[kind |-> k, filled |-> 0] : k \in OrderKinds \ {"filled"}}
    \cup {[kind |-> "filled", filled |-> q] : q \in {0, 1, amount}}

\* the sizes calculate_position_size can return at a price, over the inputs
PositionSizes(current_price) ==
    {calculate_position_size(balance, mos, mn, current_price) :
        balance \in {None} \cup {Some(b) : b \in Balances},
        mos \in MinOrderSizes, mn \in MinNotionals}

\* mutant of FillConfirmed: any truthy order counts as a fill
FillConfirmed_AnyOrder(kind) == kind \in {"no_filled_key", "filled", "filled_null"}

\* `if order and 'filled' in order` (live_trader.py:140, 151)
FillConfirmed(kind) == kind \in {"filled", "filled_null"}

NoOrder(op, s) == [op |-> op, symbol |-> s, side |-> "none", amount |-> 0,
                   order |-> "not_sent", filled |-> 0]

NoTrade == [signal |-> "none", current_price |-> 0, position_size |-> 0,
            below_sma |-> FALSE]

\* mutant of ShouldBuy: a buy is sent whatever is held
ShouldBuy_WhileLong(signal, position, below_sma) == signal = "buy" /\ below_sma

\* line 137: signal == 'buy' and self.positions[symbol] == 0 and
\* current_price < sma_50
ShouldBuy(signal, position, below_sma) ==
    signal = "buy" /\ position = 0 /\ below_sma

\* mutant of ShouldSell: the trailing stop is not consulted
ShouldSell_AnyPrice(signal, position, current_price, stop) ==
    signal = "sell" /\ position > 0

\* lines 146-148: signal == 'sell' and self.positions[symbol] > 0, then
\* current_price <= self.trailing_stop_loss[symbol]
ShouldSell(signal, position, current_price, stop) ==
    signal = "sell" /\ position > 0 /\ current_price <= Val(stop)

\* execute_trade(symbol, signal, current_price)
execute_trade(s, signal, current_price) ==
    \E position_size \in PositionSizes(current_price),
       below_sma \in {current_price < sma_50 : sma_50 \in SmaValues} :
     /\ last_trade' = [signal |-> signal, current_price |-> current_price,
                       position_size |-> position_size, below_sma |-> below_sma]
     /\
      IF position_size <= 0
      THEN /\ last_op' = NoOrder("execute_trade", s)
           /\ UNCHANGED <<positions, entry_prices, trailing_stop_loss>>
      ELSE IF ShouldBuy(signal, positions[s], below_sma)
      THEN \E order \in OrderAnswers(position_size) :
             /\ last_op' = [op |-> "execute_trade", symbol |-> s, side |-> "buy",
                            amount |-> position_size, order |-> order.kind,
                            filled |-> order.filled]
             \* float(order['filled']) raises TypeError on a null 'filled',
             \* before anything is assigned
             /\ IF FillConfirmed(order.kind) /\ order.kind # "filled_null"
                THEN /\ positions' = [positions EXCEPT ![s] = order.filled]
                     /\ entry_prices' = [entry_prices EXCEPT ![s] = Some(current_price)]
                     /\ trailing_stop_loss' =
                          [trailing_stop_loss EXCEPT ![s] = Some(StopBelow(current_price))]
                ELSE UNCHANGED <<positions, entry_prices, trailing_stop_loss>>
      ELSE IF ShouldSell(signal, positions[s], current_price, trailing_stop_loss[s])
      THEN \E order \in OrderAnswers(positions[s]) :
             /\ last_op' = [op |-> "execute_trade", symbol |-> s, side |-> "sell",
                            amount |-> positions[s], order |-> order.kind,
                            filled |-> order.filled]
             /\ IF FillConfirmed(order.kind)
                THEN /\ positions' = [positions EXCEPT ![s] = 0]
                     /\ entry_prices' = [entry_prices EXCEPT ![s] = None]
                     /\ trailing_stop_loss' = [trailing_stop_loss EXCEPT ![s] = None]
                ELSE UNCHANGED <<positions, entry_prices, trailing_stop_loss>>
      ELSE /\ last_op' = NoOrder("execute_trade", s)
           /\ UNCHANGED <<positions, entry_prices, trailing_stop_loss>>

\* mutant of Ratchets: the stop follows the price in both directions
Ratchets_Always(stop, new_stop_loss) == TRUE

\* line 36: self.trailing_stop_loss[symbol] is None or
\* new_stop_loss > self.trailing_stop_loss[symbol]
Ratchets(stop, new_stop_loss) == stop = None \/ new_stop_loss > Val(stop)

\* update_trailing_stop_loss(symbol, current_price)
update_trailing_stop_loss(s, current_price) ==
    /\ last_op' = NoOrder("update_trailing_stop_loss", s)
    /\ last_trade' = NoTrade
    /\ IF positions[s] > 0 /\ entry_prices[s] # None /\ Val(entry_prices[s]) # 0
       THEN LET new_stop_loss == StopBelow(current_price)
            IN IF Ratchets(trailing_stop_loss[s], new_stop_loss)
               THEN trailing_stop_loss' =
                      [trailing_stop_loss EXCEPT ![s] = Some(new_stop_loss)]
               ELSE UNCHANGED trailing_stop_loss
       ELSE UNCHANGED trailing_stop_loss
    /\ UNCHANGED <<positions, entry_prices>>

\* =====================================================================
\* StrategyFactory (strategies/strategy_factory.py)
\* =====================================================================
\* _cache_size: maxsize of the lru_cache around create_strategy
CacheSize == 100

\* registry keys f"{name}@{version}" (lines 115, 146, 159, 174)
KeyOf(name, version) == name \o "@" \o version

\* the strategy classes whose modules register them, with the key each
\* decorator names (volatility/atr_filter.py:10, trend/bollinger_band.py:8)
StrategyClasses == {"ATRFilterStrategy", "BollingerBandsStrategy"}
Registrations == {<<"atr_filter", "1.2.0">>, <<"bollinger_bands", "2.1.0">>}
RegisteredKeys == {KeyOf(r[1], r[2]) : r \in Registrations}

\* the (name, version) pairs callers look up: the registered ones, a
\* registered name under another version, a name never registered
Lookups == Registrations \cup {<<"atr_filter", "1.0.0">>, <<"rsi", "1.0.0">>}

\* The parameter schema of a class (its nested Parameters model): for each
\* field the bounds of Field(...), floats in tenths.  gt gives lo + 1 for
\* the integer fields and for the tenths.
Schema(cls) ==
    IF cls = "ATRFilterStrategy"
    THEN [period |-> [lo |-> 6, hi |-> 50], threshold |-> [lo |-> 5, hi |-> 50]]
    ELSE [window |-> [lo |-> 6, hi |-> 100], num_std |-> [lo |-> 11, hi |-> 30]]

\* param_model(**fields): extra = 'forbid', every field within its bounds
\* (all fields have defaults, so none is required)
Validates(cls, fields) ==
    /\ DOMAIN fields \subseteq DOMAIN Schema(cls)
    /\ \A f \in DOMAIN fields :
          /\ fields[f] >= Schema(cls)[f].lo
          /\ fields[f] <= Schema(cls)[f].hi

\* ---- the StrategyConfig objects the callers build (settings.py:43-58,
\* bot.py:45-73).  parameters is a StrategyParameters instance, dependencies
\* a dict from role to StrategyConfig (by reference) or None.
ATRParams == [kind |-> "StrategyParameters", model |-> "ATRFilterParameters",
              fields |-> [period |-> 14, threshold |-> 15]]
BBParams == [kind |-> "StrategyParameters", model |-> "BollingerBandsParameters",
             fields |-> [window |-> 20, num_std |-> 20]]

NoDeps == [kind |-> "dict", items |-> <<>>]
NoneDeps == [kind |-> "None", items |-> <<>>]
OneDep(role, id) == [kind |-> "dict", items |-> <<[role |-> role, config |-> id]>>]

Config(name, version, parameters, dependencies, enabled) ==
    [name |-> name, version |-> version, parameters |-> parameters,
     dependencies |-> dependencies, enabled |-> enabled]

ConfigIds == {"atr", "atr_copy", "atr_none_deps", "atr_off", "atr_bad", "rsi",
              "bb", "bb_off", "bb_dep_off", "bb_nested_off", "self", "ping", "pong"}

Heap ==
    [id \in ConfigIds |->
       CASE id = "atr" -> Config("atr_filter", "1.2.0", ATRParams, NoDeps, TRUE)
         [] id = "atr_copy" -> Config("atr_filter", "1.2.0", ATRParams, NoDeps, TRUE)
         [] id = "atr_none_deps" -> Config("atr_filter", "1.2.0", ATRParams, NoneDeps, TRUE)
         [] id = "atr_off" -> Config("atr_filter", "1.2.0", ATRParams, NoDeps, FALSE)
         [] id = "atr_bad" -> Config("atr_filter", "1.2.0", BBParams, NoDeps, TRUE)
         [] id = "rsi" -> Config("rsi", "1.0.0", ATRParams, NoDeps, TRUE)
         [] id = "bb" -> Config("bollinger_bands", "2.1.0", BBParams,
                                OneDep("volatility_filter", "atr"), TRUE)
         [] id = "bb_off" -> Config("bollinger_bands", "2.1.0", BBParams,
                                    OneDep("volatility_filter", "atr"), FALSE)
         [] id = "bb_dep_off" -> Config("bollinger_bands", "2.1.0", BBParams,
                                        OneDep("volatility_filter", "atr_off"), TRUE)
         [] id = "bb_nested_off" -> Config("bollinger_bands", "2.1.0", BBParams,
                                           OneDep("inner", "bb_dep_off"), TRUE)
         [] id = "self" -> Config("atr_filter", "1.2.0", ATRParams,
                                  OneDep("self", "self"), TRUE)
         [] id = "ping" -> Config("bollinger_bands", "2.1.0", BBParams,
                                  OneDep("volatility_filter", "pong"), TRUE)
         [] id = "pong" -> Config("atr_filter", "1.2.0", ATRParams,
                                  OneDep("back", "ping"), TRUE)]

DepIds(id) == {Heap[id].dependencies.items[i].config :
                  i \in DOMAIN Heap[id].dependencies.items}

\* the configs reachable from id through dependencies, id included
RECURSIVE ReachFrom(_, _)
ReachFrom(frontier, seen) ==
    LET next == UNION {DepIds(i) : i \in frontier} \ (seen \cup frontier)
    IN IF next = {} THEN seen \cup frontier
       ELSE ReachFrom(next, seen \cup frontier)

Reachable(id) == ReachFrom({id}, {})

\* a config whose dependency chain reaches the config itself
Cyclic(id) == \E d \in DepIds(id) : id \in Reachable(d)

\* a config from which a cycle can be reached (its serialisation recurses
\* without end)
ReachesCycle(id) == \E c \in Reachable(id) : Cyclic(c)

\* to_dict(): the nested plain dict of a config; parameters.dict() is the
\* plain field map, every dependency is serialised in turn
RECURSIVE to_dict(_)
to_dict(id) ==
    [name |-> Heap[id].name,
     version |-> Heap[id].version,
     parameters |-> Heap[id].parameters.fields,
     dependencies |-> [i \in DOMAIN Heap[id].dependencies.items |->
                          [role |-> Heap[id].dependencies.items[i].role,
                           config |-> to_dict(Heap[id].dependencies.items[i].config)]],
     enabled |-> Heap[id].enabled]

\* to_json(): json.dumps(..., sort_keys=True) of the fields; it reads
\* self.dependencies.items() (AttributeError on None) and recurses through
\* the dependencies (RecursionError on a cycle)
to_json(id) ==
    IF Heap[id].dependencies.kind = "None"
    THEN [kind |-> "raise", error |-> "AttributeError"]
    ELSE IF ReachesCycle(id)
    THEN [kind |-> "raise", error |-> "RecursionError"]
    ELSE [kind |-> "str", json |-> TRUE, doc |-> to_dict(id)]

\* ---- arguments of create_strategy: a StrategyConfig object (what
\* settings.py:48,59 and bot.py:94 pass), the JSON string of a config (what
\* the signature names), or a string that is no JSON
Obj(id) == [kind |-> "StrategyConfig", id |-> id]
NotJson == [kind |-> "str", json |-> FALSE, doc |-> <<>>]

\* a JSON document written by hand: a registered strategy with a parameter
\* below its bound (period = 3, gt=5), a case no StrategyConfig object can
\* carry because ATRFilterParameters refuses it at construction
OutOfBoundsJson ==
    [kind |-> "str", json |-> TRUE,
     doc |-> [name |-> "atr_filter", version |-> "1.2.0",
              parameters |-> [period |-> 3, threshold |-> 15],
              dependencies |-> <<>>, enabled |-> TRUE]]

Arguments ==
    {Obj(id) : id \in ConfigIds}
    \cup {to_json(id) : id \in {i \in ConfigIds : to_json(i).kind = "str"}}
    \cup {NotJson, OutOfBoundsJson}

VARIABLES
    \* StrategyFactory._registry: key -> (strategy_class, param_model)
    registry,
    \* the lru_cache of create_strategy: entries [key, value], least recently
    \* used first
    cache,
    \* number of strategy instances constructed so far
    created,
    \* the last call made on the factory, with what it returned or raised,
    \* and the call before it
    last_call, prev_call

factory_vars == <<registry, cache, created, last_call, prev_call>>

\* hash(arg) as lru_cache's key: a str hashes; a frozen dataclass hashes the
\* tuple of its fields, and a dict field is unhashable
Hashable(arg) ==
    IF arg.kind = "StrategyConfig"
    THEN Heap[arg.id].dependencies.kind # "dict"
    ELSE TRUE

\* json.loads(config_json) and StrategyConfig(**...): the fields hold the
\* decoded JSON values, so parameters is a plain dict and every dependency
\* entry is a plain dict
DecodedConfig(doc) ==
    [name |-> doc.name,
     version |-> doc.version,
     parameters |-> [kind |-> "dict", fields |-> doc.parameters],
     dependencies |-> [i \in DOMAIN doc.dependencies |->
                          [role |-> doc.dependencies[i].role,
                           kind |-> "dict",
                           config |-> doc.dependencies[i].config]],
     enabled |-> doc.enabled]

\* config.parameters.dict(): a method of the pydantic model; a plain dict
\* has no attribute `dict`
ParametersDict(parameters) ==
    IF parameters.kind = "StrategyParameters"
    THEN [kind |-> "return", fields |-> parameters.fields]
    ELSE [kind |-> "raise", fields |-> <<>>]

\* _resolve_dependencies: each entry is read with dep_config.enabled (a
\* plain dict has no such attribute); a disabled entry is skipped with
\* `continue`; an enabled one goes to cls.create, which StrategyFactory does
\* not define.  So the loop ends normally only if every entry is a disabled
\* StrategyConfig, and then returns the dict without them.
resolve_dependencies(dependencies) ==
    IF \E i \in DOMAIN dependencies :
          \/ dependencies[i].kind = "dict"
          \/ dependencies[i].config.enabled
    THEN [kind |-> "raise", error |-> "AttributeError"]
    ELSE [kind |-> "return", error |-> ""]

Raise(error) == [kind |-> "raise", error |-> error, instance |-> 0]
Return(instance) == [kind |-> "return", error |-> "", instance |-> instance]
\* a call that returns a value which is no strategy instance
ReturnValue(value) == [kind |-> "return", error |-> "", instance |-> 0,
                       value |-> value]

\* _resolve_strategy_class (lines 174-183): the registered pair, or
\* StrategyError; the registered classes implement the TradingStrategy
\* protocol, so the TypeError of line 181 does not arise
resolve_strategy_class(reg, name, version) ==
    IF KeyOf(name, version) \notin DOMAIN reg
    THEN Raise("StrategyError")
    ELSE ReturnValue(reg[KeyOf(name, version)])

\* the body of create_strategy on a cache miss (lines 124-141); serial is
\* the identity the new instance gets
create_strategy_body(arg, reg, serial) ==
    IF arg.kind # "str"
    THEN Raise("TypeError")                       \* json.loads on a non-str
    ELSE IF ~arg.json
    THEN Raise("StrategyCreationError")           \* JSONDecodeError, line 135
    ELSE LET config == DecodedConfig(arg.doc)
             key == KeyOf(config.name, config.version)
         IN IF resolve_strategy_class(reg, config.name, config.version).kind = "raise"
            THEN Raise("StrategyError")
            ELSE LET params == ParametersDict(config.parameters)
                 IN IF params.kind = "raise"
                    THEN Raise("AttributeError")
                    ELSE IF ~Validates(reg[key].param_model, params.fields)
                    THEN Raise("InvalidParameterError")   \* line 139
                    ELSE IF resolve_dependencies(config.dependencies).kind = "raise"
                    THEN Raise("AttributeError")
                    ELSE Return(serial)           \* strategy_class(...)

\* mutant of CacheAfter: the outcome is stored whether or not the body returned
CacheAfter_StoreFailures(entries, arg, result) ==
    IF \E i \in DOMAIN entries : entries[i].key = arg
    THEN entries
    ELSE Append(entries, [key |-> arg, value |-> result])

\* lru_cache after a miss: a returned value is stored (evicting the least
\* recently used entry of a full cache); an exception stores nothing
CacheAfter(entries, arg, result) ==
    IF result.kind = "return"
    THEN LET kept == IF Len(entries) >= CacheSize THEN Tail(entries) ELSE entries
         IN Append(kept, [key |-> arg, value |-> result])
    ELSE entries

\* lru_cache on a hit: the entry moves to the most recently used end
Touch(entries, i) ==
    [j \in 1..Len(entries) |->
        IF j < i THEN entries[j]
        ELSE IF j < Len(entries) THEN entries[j + 1]
        ELSE entries[i]]

\* StrategyFactory.create_strategy(arg)
create_strategy(arg) ==
    /\ prev_call' = last_call
    /\ IF ~Hashable(arg)
       THEN /\ last_call' = [op |-> "create_strategy", arg |-> arg,
                             result |-> Raise("TypeError")]
            /\ UNCHANGED <<registry, cache, created>>
       ELSE IF \E i \in DOMAIN cache : cache[i].key = arg
       THEN LET i == CHOOSE i \in DOMAIN cache : cache[i].key = arg
            IN /\ last_call' = [op |-> "create_strategy", arg |-> arg,
                                result |-> cache[i].value]
               /\ cache' = Touch(cache, i)
               /\ UNCHANGED <<registry, created>>
       ELSE LET result == create_strategy_body(arg, registry, created + 1)
            IN /\ last_call' = [op |-> "create_strategy", arg |-> arg,
                                result |-> result]
               /\ cache' = CacheAfter(cache, arg, result)
               /\ created' = IF result.kind = "return" THEN created + 1 ELSE created
               /\ UNCHANGED registry

\* mutant of AlreadyRegistered: the duplicate check is missing
AlreadyRegistered_Never(reg, key) == FALSE

\* register line 160: if key in cls._registry
AlreadyRegistered(reg, key) == key \in DOMAIN reg

\* the pair register stores for a class: the class and its nested Parameters
\* model (line 156; every strategy class of the repository defines one that
\* inherits from StrategyParameters, so the TypeError of line 164 does not
\* arise)
Entry(strategy_class) ==
    [strategy_class |-> strategy_class, param_model |-> strategy_class]

\* StrategyFactory.register(name, version)(strategy_class)
register(name, version, strategy_class) ==
    LET key == KeyOf(name, version)
        call == [name |-> name, version |-> version,
                 strategy_class |-> strategy_class]
    IN /\ prev_call' = last_call
       /\ IF AlreadyRegistered(registry, key)
          THEN /\ last_call' = [op |-> "register", arg |-> call,
                                result |-> Raise("ValueError")]
               /\ UNCHANGED <<registry, cache, created>>
          ELSE /\ registry' = [k \in DOMAIN registry \cup {key} |->
                                 IF k = key THEN Entry(strategy_class)
                                 ELSE registry[k]]
               /\ last_call' = [op |-> "register", arg |-> call,
                                result |-> Return(0)]
               /\ UNCHANGED <<cache, created>>

\* mutant of get_strategy_type_result: the key is never found
get_strategy_type_result_Mismatch(reg, name, version) == Raise("StrategyError")

\* get_strategy_type (lines 146-149): the registered pair, or StrategyError
get_strategy_type_result(reg, name, version) ==
    IF KeyOf(name, version) \notin DOMAIN reg
    THEN Raise("StrategyError")
    ELSE ReturnValue(reg[KeyOf(name, version)])

\* StrategyFactory.get_strategy_type(name, version)
get_strategy_type(name, version) ==
    /\ prev_call' = last_call
    /\ last_call' = [op |-> "get_strategy_type",
                     arg |-> [name |-> name, version |-> version],
                     result |-> get_strategy_type_result(registry, name, version)]
    /\ UNCHANGED <<registry, cache, created>>

\* StrategyFactory.is_strategy_registered(name, version)
is_strategy_registered(name, version) ==
    /\ prev_call' = last_call
    /\ last_call' = [op |-> "is_strategy_registered",
                     arg |-> [name |-> name, version |-> version],
                     result |-> ReturnValue(KeyOf(name, version) \in DOMAIN registry)]
    /\ UNCHANGED <<registry, cache, created>>

NoCall == [op |-> "none", arg |-> <<>>, result |-> Return(0)]

FactoryInit ==
    /\ registry = <<>>
    /\ cache = <<>>
    /\ created = 0
    /\ last_call = NoCall
    /\ prev_call = NoCall

\* =====================================================================
\* CombinedStrategy (src/strategies/combined_signal.py)
\* =====================================================================
\* largest number of rows in the data window of one generate_signals call
MaxRows == 2

\* self.strong_signal_threshold, self.history_length (lines 37-38)
strong_signal_threshold == 3
history_length == 5

\* self.weight_map (lines 28-34)
weight_map == [strong_buy |-> 3, buy |-> 2, neutral |-> 0, sell |-> -2,
               strong_sell |-> -3]

\* self.weight_map.get(x, 0) (line 76)
WeightOf(x) == IF x \in DOMAIN weight_map THEN weight_map[x] ELSE 0

\* the member strategies in the order the `strategies` dict lists them
\* (lines 51-58), which is the order they are evaluated in
Strategies == <<"RSI", "MACD", "Bollinger Bands", "SMA Crossover",
                "Stochastic Oscillator", "Moving Average Crossover">>

\* what strategy.generate_signals(data) does on a window: it raises, it
\* returns one value for the whole window, or it returns one value per row
Raised == [kind |-> "raise", values |-> <<>>]
Scalar(v) == [kind |-> "scalar", values |-> <<v>>]
Series(vs) == [kind |-> "series", values |-> vs]

StrongSignals == {"strong_buy", "strong_sell", "neutral"}
PlainSignals == {"buy", "sell", "neutral"}

\* the outcomes of each member on a window of n rows: RSIStrategy gives a
\* per-row Series of buy/sell/neutral, or None without a close column;
\* MACD, SMA crossover and the stochastic oscillator give one of
\* strong_buy/strong_sell/neutral; BollingerBandsStrategy gives one of
\* those, None without a close column, and its Series-returning variant
\* (strategies/trend/bollinger_band.py:46) gives 'hold' on every row when no
\* band is crossed; the moving-average crossover gives buy/sell/neutral.
\* Every member may raise.
MemberOutcomes(name, n) ==
    {Raised} \cup
    CASE name = "RSI" ->
           {Scalar("None")} \cup {Series(vs) : vs \in [1..n -> PlainSignals]}
      [] name = "Bollinger Bands" ->
           {Scalar(v) : v \in StrongSignals \cup {"None"}}
           \cup {Series([i \in 1..n |-> "hold"])}
      [] name = "Moving Average Crossover" -> {Scalar(v) : v \in PlainSignals}
      [] OTHER -> {Scalar(v) : v \in StrongSignals}

\* a data window of n rows together with what each member makes of it
Window(n, rsi, macd, bollinger, sma, stochastic, mac) ==
    [rows |-> n,
     out |-> ("RSI" :> rsi @@ "MACD" :> macd @@ "Bollinger Bands" :> bollinger
              @@ "SMA Crossover" :> sma @@ "Stochastic Oscillator" :> stochastic
              @@ "Moving Average Crossover" :> mac)]

\* member signals [strong_buy, strong_buy, buy] with the rest neutral
StrongBuyExample ==
    Window(1, Series(<<"buy">>), Scalar("strong_buy"), Scalar("strong_buy"),
           Scalar("neutral"), Scalar("neutral"), Scalar("neutral"))

\* a window on which RSI, MACD and the moving-average crossover give the
\* signals named and the other members stay neutral
QuietWindow(n, rsi_rows, macd, mac) ==
    Window(n, Series(rsi_rows), Scalar(macd), Scalar("neutral"),
           Scalar("neutral"), Scalar("neutral"), Scalar(mac))

VARIABLES
    \* CombinedStrategy.signal_history (line 25)
    signal_history,
    \* the last generate_signals call: the window it was given, the
    \* total_weights it computed and the final_signals it returned
    last_signals

aggregator_vars == <<signal_history, last_signals>>

\* mutant of Cell: a member that raises is counted as a sell
Cell_ErrorSell(signals, i) ==
    CASE signals.kind = "raise" -> "sell"
      [] signals.kind = "scalar" -> signals.values[1]
      [] OTHER -> signals.values[i]

\* signals_df[name] at row i (lines 64-70): the member's signal for the row,
\* its single value spread over the rows, or 'neutral' when the member
\* raised
Cell(signals, i) ==
    CASE signals.kind = "raise" -> "neutral"
      [] signals.kind = "scalar" -> signals.values[1]
      [] OTHER -> signals.values[i]

\* mutant of Sum: each column overwrites the total instead of adding to it
RECURSIVE Sum_LastOnly(_)
Sum_LastOnly(ws) ==
    IF ws = <<>> THEN 0
    ELSE IF Len(ws) = 1 THEN ws[1]
    ELSE Sum_LastOnly(Tail(ws))

\* weighted_signals.sum(axis=1) over one row (line 77)
RECURSIVE Sum(_)
Sum(ws) == IF ws = <<>> THEN 0 ELSE ws[1] + Sum(Tail(ws))

\* total_weights (lines 63-77) when the members are evaluated in `order`
total_weights(order, window) ==
    [i \in 1..window.rows |->
        Sum([k \in 1..Len(order) |-> WeightOf(Cell(window.out[order[k]], i))])]

\* mutant of IsStrongBuy: the threshold itself is not strong
IsStrongBuy_Strict(weight) == weight > strong_signal_threshold

\* line 86: weight >= self.strong_signal_threshold
IsStrongBuy(weight) == weight >= strong_signal_threshold

\* line 88: weight <= -self.strong_signal_threshold
IsStrongSell(weight) == weight <= -strong_signal_threshold

\* mutant of Majority: one weight of the sign makes the trend
Majority_One(count, history) == count >= 1

\* mutant of Majority: half of the history counts as a majority
Majority_AtLeastHalf(count, history) == 2 * count >= Len(history)

\* mutant of Majority: the count is held against the full history length
Majority_FixedLength(count, history) == 2 * count > history_length

\* lines 97-98: count > len(self.signal_history) / 2
Majority(count, history) == 2 * count > Len(history)

\* mutant of Pushed: a full history keeps its entries and drops the new one
Pushed_NewestDropped(history, weight) ==
    IF Len(history) >= history_length THEN history ELSE Append(history, weight)

\* lines 92-94: append, then drop the oldest beyond history_length
Pushed(history, weight) ==
    IF Len(Append(history, weight)) > history_length
    THEN Tail(Append(history, weight))
    ELSE Append(history, weight)

positive_trend(history) ==
    Majority(Cardinality({i \in DOMAIN history : history[i] > 0}), history)
negative_trend(history) ==
    Majority(Cardinality({i \in DOMAIN history : history[i] < 0}), history)

\* one pass of the loop body (lines 86-107) for one row's weight
DecideRow(history, weight) ==
    IF IsStrongBuy(weight)
    THEN [history |-> history, final_signal |-> "strong_buy"]
    ELSE IF IsStrongSell(weight)
    THEN [history |-> history, final_signal |-> "strong_sell"]
    ELSE [history |-> Pushed(history, weight),
          final_signal |->
             IF positive_trend(Pushed(history, weight)) THEN "buy"
             ELSE IF negative_trend(Pushed(history, weight)) THEN "sell"
             ELSE "neutral"]

\* the loop over total_weights (lines 84-107), from row i on
RECURSIVE RunRows(_, _, _, _)
RunRows(history, weights, i, final_signals) ==
    IF i > Len(weights)
    THEN [history |-> history, final_signals |-> final_signals]
    ELSE RunRows(DecideRow(history, weights[i]).history, weights, i + 1,
                 Append(final_signals, DecideRow(history, weights[i]).final_signal))

\* CombinedStrategy.generate_signals(data)
generate_signals(window) ==
    \E data \in {window} :
    \E weights \in {total_weights(Strategies, data)} :
    \E result \in {RunRows(signal_history, weights, 1, <<>>)} :
       /\ signal_history' = result.history
       /\ last_signals' = [data |-> data, total_weights |-> weights,
                           final_signals |-> result.final_signals]

NoSignals == [data |-> [rows |-> 0, out |-> <<>>], total_weights |-> <<>>,
              final_signals |-> <<>>]

\* CombinedStrategy.__init__
AggregatorInit ==
    /\ signal_history = <<>>
    /\ last_signals = NoSignals

TraderInit ==
    /\ positions = [s \in Symbols |-> 0]
    /\ entry_prices = [s \in Symbols |-> None]
    /\ trailing_stop_loss = [s \in Symbols |-> None]
    /\ last_op = NoOrder("init", "")
    /\ last_trade = NoTrade

\* =====================================================================
\* Order parameters (core/execution/exchange.py, BinanceSpot)
\* =====================================================================
\* ExchangeConfig.slippage and fee_rate are written in thousandths: the
\* defaults 0.001 are 1.
RateScale == 1000

\* ExchangeConfig() with its default rates (lines 44-45)
DefaultConfig == [slippage |-> 1, fee_rate |-> 1]

\* rates an ExchangeConfig can be built with (the dataclass checks nothing):
\* none, the default, the whole and one and a half times the whole
Slippages == {0, 1, 1000}
FeeRates == {0, 1, 1000, 1500}
Configs == [slippage : Slippages, fee_rate : FeeRates]

\* requested amounts (thousandths of the base asset, so that every fee in
\* thousandths is a whole number), sides and ticker['last'] prices
Amounts == {0, 1000, 2000, 3000}
Sides == {"buy", "sell"}
LastPrices == Prices

VARIABLES
    \* BaseExchange.config (line 90)
    config,
    \* the arguments of the last place_order call, the OrderParams it
    \* computed and the amount and price it handed to exchange.create_order
    request, order_params, create_order_args

order_vars == <<config, request, order_params, create_order_args>>

\* no call yet, no OrderParams, no create_order call
NoParams == [none |-> TRUE]

\* the exception of a float division by zero
ZeroDivisionError == [raised |-> "ZeroDivisionError"]

\* mutant of slippage_price: the side is ignored, slippage is always added
slippage_price_SideIgnored(cfg, side, current_price) ==
    current_price * (RateScale + cfg.slippage)

\* line 187, in thousandths of the quote currency:
\* current_price * (1 + slippage * (1 if side == 'buy' else -1))
slippage_price(cfg, side, current_price) ==
    current_price * (RateScale + cfg.slippage * (IF side = "buy" THEN 1 ELSE -1))

\* line 190: fee = amount * slippage_price * fee_rate (the amounts are
\* whole thousands, so the division by the rate scale is exact)
fee(cfg, amount, price) == ((amount * cfg.fee_rate) \div RateScale) * price

\* line 193: adjusted_amount = amount - (fee / slippage_price)
adjusted_amount(amount, fee_paid, price) == amount - fee_paid \div price

\* _calculate_order_params (lines 181-200); the division of line 193 raises
\* ZeroDivisionError when the slippage-adjusted price is 0
calculate_order_params(cfg, side, amount, current_price) ==
    IF slippage_price(cfg, side, current_price) = 0
    THEN ZeroDivisionError
    ELSE [amount |-> adjusted_amount(amount,
                        fee(cfg, amount, slippage_price(cfg, side, current_price)),
                        slippage_price(cfg, side, current_price)),
          price |-> slippage_price(cfg, side, current_price),
          fee |-> fee(cfg, amount, slippage_price(cfg, side, current_price)),
          original_amount |-> amount]

\* place_order, lines 165-175, once fetch_ticker has answered: the order
\* parameters are computed and their amount and price are passed to
\* create_order as they are; an exception of the computation leaves the
\* call before create_order
place_order_params(side, amount, current_price) ==
    /\ request' = [side |-> side, amount |-> amount, last |-> current_price]
    /\ order_params' = calculate_order_params(config, side, amount, current_price)
    /\ create_order_args' =
          IF order_params' = ZeroDivisionError THEN NoParams
          ELSE [side |-> side, amount |-> order_params'.amount,
                price |-> order_params'.price]
    /\ config' = config

OrderInit ==
    /\ config = DefaultConfig
    /\ request = NoParams
    /\ order_params = NoParams
    /\ create_order_args = NoParams

\* =====================================================================
\* Position sizing (LiveTrader.calculate_position_size, both versions)
\* =====================================================================
\* risk_percentage is written in hundredths: the default 0.1 is 10
RiskScale == 100

\* LiveTrader(..., risk_percentage=...): a 2 % trader and the default
RiskPercentages == {2, 10}

\* check_balance answers: None (or anything that is not a non-empty dict),
\* or a dict whose free quote balance is the number given
SizingBalances == {None} \cup {Some(b) : b \in {0, 5, 20, 100, 1000}}

\* get_min_notional and get_min_order_size answers (0.1 and 0.5 of the base
\* asset, in quantity units)
SizingMinNotionals == {None, Some(5), Some(10)}
SizingMinOrderSizes == {None, Some(10000), Some(50000)}

VARIABLES
    \* LiveTrader.risk_percentage (line 21)
    risk_percentage,
    \* the last calculate_position_size call: the version of LiveTrader
    \* ("core" or "legacy"), what the exchange answered, and the size returned
    last_size

sizing_vars == <<risk_percentage, last_size>>

NoSize == [version |-> "none"]

\* line 73: (available_balance * self.risk_percentage) / current_price, in
\* quantity units
risk_scaled_size(risk, available_balance, current_price) ==
    (available_balance * risk * (QtyScale \div RiskScale)) \div current_price

\* mutant of meet_min_notional: the size is never raised
meet_min_notional_Never(position_size, min_notional, current_price) == position_size

\* lines 76-80: a size whose notional value is below min_notional becomes
\* min_notional / current_price
meet_min_notional(position_size, min_notional, current_price) ==
    IF position_size * current_price < min_notional * QtyScale
    THEN (min_notional * QtyScale) \div current_price
    ELSE position_size

\* lines 59-62 and 66-69: the fallbacks for answers of None
min_order_size_or_fallback(min_order_size) ==
    IF min_order_size = None THEN FallbackMinOrderSize ELSE Val(min_order_size)

min_notional_or_fallback(min_notional) ==
    IF min_notional = None THEN FallbackMinNotional ELSE Val(min_notional)

\* core calculate_position_size (lines 41-83) of a trader with the given
\* risk percentage
position_size_core(risk, balance, min_order_size, min_notional, current_price) ==
    IF balance = None
    THEN 0
    ELSE Max(meet_min_notional(risk_scaled_size(risk, Val(balance), current_price),
                               min_notional_or_fallback(min_notional), current_price),
             min_order_size_or_fallback(min_order_size))

\* the minimum trade threshold of the legacy version (line 42)
LegacyMinBalance == 10

\* legacy calculate_position_size (src/live_trading/live_trader.py:25-48)
position_size_legacy(risk, balance, current_price) ==
    IF balance = None THEN 0
    ELSE IF Val(balance) <= LegacyMinBalance THEN 0
    ELSE risk_scaled_size(risk, Val(balance), current_price)

\* a call of the core version: the answers of check_balance,
\* get_min_order_size and get_min_notional are its inputs
calculate_position_size_core(balance, min_order_size, min_notional, current_price) ==
    /\ last_size' = [version |-> "core", balance |-> balance,
                     min_order_size |-> min_order_size, min_notional |-> min_notional,
                     current_price |-> current_price,
                     size |-> position_size_core(risk_percentage, balance,
                                 min_order_size, min_notional, current_price)]
    /\ risk_percentage' = risk_percentage

\* a call of the legacy version, which asks the exchange for the balance only
calculate_position_size_legacy(balance, current_price) ==
    /\ last_size' = [version |-> "legacy", balance |-> balance,
                     min_order_size |-> None, min_notional |-> None,
                     current_price |-> current_price,
                     size |-> position_size_legacy(risk_percentage, balance,
                                 current_price)]
    /\ risk_percentage' = risk_percentage

SizingInit ==
    /\ risk_percentage = 10
    /\ last_size = NoSize

\* =====================================================================
\* LiveTrader.trade_multiple_symbols (core/execution/live_trader.py:158-182)
\* =====================================================================
\* the keys of the signals dict, in its order: configured symbols and one
\* that is not configured
SignalKeys ==
    {<<"BTC/USDT", "ETH/USDT">>, <<"ETH/USDT", "BTC/USDT">>, <<"BTC/USDT">>,
     <<"DOGE/USDT", "ETH/USDT">>, <<"DOGE/USDT">>, <<>>}

\* the awaits of execute_trade in the order it reaches them (lines 45, 59,
\* 66, 135, 139/150)
AwaitPoints == <<"check_balance", "get_min_order_size", "get_min_notional",
                 "fetch_sma", "exchange.execute_trade">>

VARIABLES
    \* trade_multiple_symbols: where its caller stands ("idle", suspended in
    \* "fetch_latest_price" or in "gather", "returned", "raised"), the keys of
    \* the signals it was given and the index of the key the loop is at
    tms_pc, tms_keys, tms_i,
    \* the execute_trade coroutine of each symbol: "none", "coroutine"
    \* (created, in the tasks list), "scheduled" (wrapped in a task by
    \* gather), the await it is suspended in, "done" or "failed"
    coroutines

gather_vars == <<tms_pc, tms_keys, tms_i, coroutines>>

\* a task gather started that has not finished
Running(c) == c \notin {"none", "coroutine", "done", "failed"}

\* lines 165-168: the next key from index i on that is a configured symbol
RECURSIVE NextKey(_, _)
NextKey(keys, i) ==
    IF i > Len(keys) THEN i
    ELSE IF keys[i] \in Symbols THEN i
    ELSE NextKey(keys, i + 1)

\* mutant of FirstException: gather waits for every task before it raises
FirstException_AfterAll(cs) ==
    /\ \E s \in Symbols : cs[s] = "failed"
    /\ \A s \in Symbols : ~Running(cs[s])

\* asyncio.gather without return_exceptions (line 182): the first task that
\* ends with an exception makes the gather future raise at once
FirstException(cs) == \E s \in Symbols : cs[s] = "failed"

\* gather's future has its result: every task ended without an exception
AllDone(cs) == \A s \in Symbols : cs[s] \in {"none", "done"}

\* the loop of lines 165-179 from index i on, up to its next suspension: the
\* await of fetch_latest_price for the next configured symbol, or, past
\* the last key, the await of gather, which wraps every coroutine in a
\* task (and is done at once when there is none)
RunLoop(keys, i, cs) ==
    /\ tms_i' = NextKey(keys, i)
    /\ IF NextKey(keys, i) <= Len(keys)
       THEN /\ tms_pc' = "fetch_latest_price"
            /\ coroutines' = cs
       ELSE /\ coroutines' = [s \in Symbols |->
                                 IF cs[s] = "coroutine" THEN "scheduled" ELSE cs[s]]
            /\ tms_pc' = IF \A s \in Symbols : cs[s] = "none"
                         THEN "returned" ELSE "gather"

\* trade_multiple_symbols(signals) is called
trade_multiple_symbols(keys) ==
    /\ tms_pc = "idle"
    /\ tms_keys' = keys
    /\ RunLoop(keys, 1, coroutines)

\* fetch_latest_price returns: a price (the coroutine of execute_trade is
\* created and appended), a falsy value (the symbol is skipped), or an
\* exception, which leaves trade_multiple_symbols before gather
LatestPriceReturn ==
    /\ tms_pc = "fetch_latest_price"
    /\ tms_keys' = tms_keys
    /\ \E r \in {"price", "falsy", "raise"} :
         CASE r = "price" ->
                RunLoop(tms_keys, tms_i + 1,
                        [coroutines EXCEPT ![tms_keys[tms_i]] = "coroutine"])
           [] r = "falsy" -> RunLoop(tms_keys, tms_i + 1, coroutines)
           [] OTHER -> /\ tms_pc' = "raised"
                       /\ UNCHANGED <<tms_i, coroutines>>

\* the task of symbol s runs: from its start to its first await, or its
\* await returns and it runs to the next one, or to the end of
\* execute_trade (lines 49 and 130-132 after check_balance, no order to
\* send after fetch_sma, the order's answer), or the await raises
TaskStep(s) ==
    /\ Running(coroutines[s])
    /\ UNCHANGED <<tms_pc, tms_keys, tms_i>>
    /\ IF coroutines[s] = "scheduled"
       THEN coroutines' = [coroutines EXCEPT ![s] = AwaitPoints[1]]
       ELSE \E k \in DOMAIN AwaitPoints :
              /\ coroutines[s] = AwaitPoints[k]
              /\ \E next \in {"failed"}
                     \cup (IF k < Len(AwaitPoints) THEN {AwaitPoints[k + 1]} ELSE {"done"})
                     \cup (IF AwaitPoints[k] \in {"check_balance", "fetch_sma"}
                           THEN {"done"} ELSE {}) :
                   coroutines' = [coroutines EXCEPT ![s] = next]

\* the await of gather ends: with the first exception of a task, or with
\* the results once every task is done; the first steps of the tasks were
\* queued on the event loop before anything a task's end can queue
GatherReturn ==
    /\ tms_pc = "gather"
    /\ \A s \in Symbols : coroutines[s] # "scheduled"
    /\ \/ FirstException(coroutines) /\ tms_pc' = "raised"
       \/ AllDone(coroutines) /\ tms_pc' = "returned"
    /\ UNCHANGED <<tms_keys, tms_i, coroutines>>

GatherInit ==
    /\ tms_pc = "idle"
    /\ tms_keys = <<>>
    /\ tms_i = 0
    /\ coroutines = [s \in Symbols |-> "none"]

\* =====================================================================
\* TradingBot._main_loop and legacy_main (bot.py:203-230, 349-367)
\* =====================================================================
\* the number of trading cycles a run of the model follows
MaxCycles == 3

VARIABLES
    \* where _main_loop is suspended: "start" (not entered), an await of the
    \* loop body ("analyze_markets" line 213, "fetch_balance" 216,
    \* "position_size" 291, "place_order" 295, "retrain" 224, "sleep" 226,
    \* "error_sleep" 230), or "exited"
    bot_pc,
    \* TradingBot.stop_event (line 37)
    stop_event,
    \* observation of the run: cycles whose market analysis was started,
    \* place_order calls made, what became of the last one ("none",
    \* "in_flight", "completed", "failed", "abandoned"), and where the loop
    \* stood when it ended ("top" for the tests of lines 207-211)
    cycles, orders, order_fate, exit_at,
    \* the size _execute_trade computed last (None before the first, and
    \* when _calculate_position_size raised), and the count of the
    \* trades_total metric (line 315)
    size, trades_total

bot_vars == <<bot_pc, stop_event, cycles, orders, order_fate, exit_at, size,
              trades_total>>

\* what _calculate_position_size returns (lines 343-346), in quote currency
BotSizes == {-1, 0, 5}

\* record_failure called n times in a row
RECURSIVE CountAfterFailures(_, _)
CountAfterFailures(fc, n) ==
    IF n = 0 THEN fc ELSE CountAfterFailures(CountAfterFailure(fc), n - 1)

RECURSIVE StateAfterFailures(_, _, _, _)
StateAfterFailures(fc, thr, st, n) ==
    IF n = 0 THEN st
    ELSE StateAfterFailures(CountAfterFailure(fc), thr,
                            StateAfterFailure(CountAfterFailure(fc), thr, st), n - 1)

\* mutant of BreakerTripped: the loop does not look at the breaker
BreakerTripped_Ignored(st) == FALSE

\* line 209: if self.exchange.circuit_breaker.is_open()
BreakerTripped(st) == is_open(st)

\* lines 207-213, the top of the loop: leave when the stop event is set or
\* the breaker is open, otherwise start the market analysis of a new cycle
LoopTop ==
    IF stop_event \/ BreakerTripped(state)
    THEN /\ bot_pc' = "exited"
         /\ exit_at' = "top"
         /\ cycles' = cycles
    ELSE /\ cycles < MaxCycles
         /\ bot_pc' = "analyze_markets"
         /\ cycles' = cycles + 1
         /\ exit_at' = exit_at

\* _main_loop is entered (line 148)
MainLoopStart ==
    /\ bot_pc = "start"
    /\ LoopTop
    /\ UNCHANGED <<stop_event, orders, order_fate, failure_count, state, size,
                   trades_total>>

\* the loop body goes on from an await that returned to one of the awaits
\* after it that starts no order, as the data decide (balance check due,
\* _should_execute, drift), or an exception sends it to the except clause
\* of line 228; `after` is what became of the last order
GoOn(after, allowed) ==
    \E next \in (allowed \cup {"error_sleep"}) :
       /\ bot_pc' = next
       /\ orders' = orders
       /\ order_fate' = after

\* _analyze_markets returns (line 213): it catches the errors of every
\* timeframe itself
AnalyzeReturn ==
    /\ bot_pc = "analyze_markets"
    /\ GoOn(order_fate, {"fetch_balance", "position_size", "retrain", "sleep"})
    /\ UNCHANGED <<stop_event, cycles, exit_at, failure_count, state, size,
                   trades_total>>

\* the balance check of line 216 returns or raises
BalanceReturn ==
    /\ bot_pc = "fetch_balance"
    /\ GoOn(order_fate, {"position_size", "retrain", "sleep"})
    /\ UNCHANGED <<stop_event, cycles, exit_at, failure_count, state, size,
                   trades_total>>

\* mutant of NoTradeSize: a size of zero goes on to the order
NoTradeSize_ZeroPasses(computed) == computed < 0

\* line 292: if size <= 0: return
NoTradeSize(computed) == computed <= 0

\* _calculate_position_size returns or raises inside _execute_trade (lines
\* 290-295): a size above 0 goes on to place_order; with any other size
\* _execute_trade returns, and with an exception its handler of line 309
\* runs, and the loop goes on after line 220
PositionSizeReturn ==
    /\ bot_pc = "position_size"
    /\ \E computed \in {None} \cup {Some(v) : v \in BotSizes} :
         /\ size' = computed
         /\ IF computed # None /\ ~NoTradeSize(Val(computed))
            THEN /\ bot_pc' = "place_order"
                 /\ orders' = orders + 1
                 /\ order_fate' = "in_flight"
            ELSE GoOn(order_fate, {"retrain", "sleep"})
    /\ UNCHANGED <<stop_event, cycles, exit_at, failure_count, state, trades_total>>

\* place_order ends (lines 295-311): with a result after n failed attempts
\* (n < 3, the breaker still closed for the attempt that succeeds), or with
\* an exception after none (margin health) or after 3; _execute_trade
\* catches the exception
PlaceOrderReturn ==
    /\ bot_pc = "place_order"
    /\ \E n \in 0..StopAfterAttempt, raised \in BOOLEAN :
         /\ raised => n \in {0, StopAfterAttempt}
         /\ ~raised => /\ n < StopAfterAttempt
                       /\ ~is_open(StateAfterFailures(failure_count, threshold, state, n))
         /\ failure_count' = CountAfterFailures(failure_count, n)
         /\ state' = StateAfterFailures(failure_count, threshold, state, n)
         /\ GoOn(IF raised THEN "failed" ELSE "completed", {"retrain", "sleep"})
         \* lines 303-306: a result that is not empty is recorded
         /\ \E recorded \in BOOLEAN :
              /\ recorded => ~raised
              /\ trades_total' = IF recorded THEN trades_total + 1 ELSE trades_total
    /\ UNCHANGED <<stop_event, cycles, exit_at, size>>

\* _retrain_model returns or raises (line 224)
RetrainReturn ==
    /\ bot_pc = "retrain"
    /\ GoOn(order_fate, {"sleep"})
    /\ UNCHANGED <<stop_event, cycles, exit_at, failure_count, state, size,
                   trades_total>>

\* a sleep of line 226 or 230 ends: the loop is at its top again
SleepReturn ==
    /\ bot_pc \in {"sleep", "error_sleep"}
    /\ LoopTop
    /\ UNCHANGED <<stop_event, orders, order_fate, failure_count, state, size,
                   trades_total>>

\* shutdown is requested (KeyboardInterrupt, legacy_main lines 363-366): the
\* task is cancelled in the await it is suspended in; CancelledError is no
\* Exception, so neither place_order nor the loop catches it, and the
\* finally clause sets stop_event when the loop is gone
ShutdownRequested ==
    /\ bot_pc \notin {"start", "exited"}
    /\ bot_pc' = "exited"
    /\ exit_at' = bot_pc
    /\ order_fate' = IF bot_pc = "place_order" THEN "abandoned" ELSE order_fate
    /\ stop_event' = TRUE
    /\ UNCHANGED <<cycles, orders, failure_count, state, size, trades_total>>

\* legacy_main's finally after the loop has ended by itself (line 366)
StopEventSet ==
    /\ bot_pc = "exited"
    /\ ~stop_event
    /\ stop_event' = TRUE
    /\ UNCHANGED <<bot_pc, cycles, orders, order_fate, exit_at, failure_count,
                   state, size, trades_total>>

\* what the loop leaves alone of the exchange object
BotExchangeFrame ==
    UNCHANGED <<threshold, exchange_class, pc, attempt_number, outcome,
                submitted, open_at_start, calls, failed_attempts, last_query>>

BotInit ==
    /\ bot_pc = "start"
    /\ stop_event = FALSE
    /\ cycles = 0
    /\ orders = 0
    /\ order_fate = "none"
    /\ exit_at = "none"
    /\ size = None
    /\ trades_total = 0

\* =====================================================================
\* Telegram notifications (src/src/utils/notifications.py) and
\* process_signal (src/src/bot.py:98-191)
\* =====================================================================
MAX_RETRIES == 3

\* the order types a caller passes; "bogus" stands for any unknown one
OrderTypes == {"buy", "sell", "long", "short", "neutral", "strong_buy",
               "strong_sell", "margin_call", "error", "bogus"}

\* the signals process_signal is called with; "hold" is none it knows
NotifySignals == {"buy", "sell", "long", "short", "neutral", "strong_buy",
                  "strong_sell", "hold"}

\* the exceptions of one HTTP post: aiohttp.ClientError (raise_for_status
\* included) or any other Exception
PostOutcomes == {"ok", "ClientError", "Exception"}

\* the fields each message template formats (lines 26-48); the empty set
\* for an order type without template
TemplateFields(order_type) ==
    CASE order_type \in {"buy", "sell"} ->
            {"pair", "entry_price", "stop_loss", "take_profit"}
      [] order_type \in {"long", "short"} ->
            {"pair", "leverage", "entry_price", "stop_loss", "take_profit"}
      [] order_type = "neutral" ->
            {"pair", "current_price", "rsi", "macd", "bollinger_upper",
             "bollinger_lower", "recommendation"}
      [] order_type \in {"strong_buy", "strong_sell"} ->
            {"pair", "current_price", "analysis"}
      [] order_type = "margin_call" ->
            {"pair", "current_price", "liquidation_price", "leverage", "action"}
      [] order_type = "error" -> {"error"}
      [] OTHER -> {}

HasTemplate(order_type) == order_type \in (OrderTypes \ {"bogus"})

\* the keyword arguments process_signal passes for a signal (lines 126-187)
SignalKwargs(signal) ==
    CASE signal \in {"buy", "sell"} ->
            {"signal", "pair", "entry_price", "stop_loss", "take_profit"}
      [] signal \in {"long", "short"} ->
            {"signal", "pair", "leverage", "entry_price", "stop_loss", "take_profit"}
      [] signal = "neutral" ->
            {"signal", "pair", "current_price", "rsi", "macd",
             "bollinger_upper", "bollinger_lower"}
      [] signal \in {"strong_buy", "strong_sell"} ->
            {"signal", "pair", "current_price", "stop_loss", "take_profit", "analysis"}
      [] OTHER -> {"error"}

\* the order type process_signal sends for a signal
SignalOrderType(signal) ==
    IF signal \in (NotifySignals \ {"hold"}) THEN signal ELSE "error"

\* the keyword sets a direct caller of the sender passes
DirectKwargs == {{}, {"error"}, {"pair", "current_price", "analysis"},
                 {"pair", "entry_price", "stop_loss", "take_profit"}}

VARIABLES
    \* where the notification call is suspended: "idle", "post" (line 95),
    \* "backoff" (line 106), "retry_sleep" (line 123), "returned", "raised"
    ntf_pc,
    \* "process_signal", "with_retries" or "none": who was called
    ntf_caller,
    \* the arguments of send_telegram_message
    ntf_order_type, ntf_kwargs,
    \* TELEGRAM_BOT_TOKEN and TELEGRAM_CHAT_ID are both set
    credentials,
    \* bot.py's global last_sent_signal ("" for None)
    last_sent_signal,
    \* loop variables: i of line 92, attempt of line 117
    ntf_i, ntf_attempt,
    \* observation of the call: HTTP posts made, calls of
    \* send_telegram_message made
    posts, sends

notify_vars == <<ntf_pc, ntf_caller, ntf_order_type, ntf_kwargs, credentials,
                 last_sent_signal, ntf_i, ntf_attempt, posts, sends>>

\* Python's `except Exception` catches everything a send attempt raises
IsException(e) == e \in {"KeyError", "TypeError", "ClientError", "Exception"}

\* send_telegram_message up to its first await (lines 59-95): it returns
\* without sending, raises out of str.format, or starts the first post
send_prefix(cred, order_type, kwargs) ==
    IF ~cred THEN "return"
    ELSE IF ~HasTemplate(order_type) THEN "return"
    ELSE IF ~(TemplateFields(order_type) \subseteq kwargs) THEN "KeyError"
    ELSE "post"

\* mutant of after_post: an unexpected exception leaves send_telegram_message
after_post_Propagates(post_outcome, i) ==
    CASE post_outcome = "ok" -> "return"
      [] post_outcome = "ClientError" -> IF i < MAX_RETRIES - 1 THEN "backoff" ELSE "return"
      [] OTHER -> post_outcome

\* what send_telegram_message does with the post_outcome of post i (lines
\* 96-112)
after_post(post_outcome, i) ==
    CASE post_outcome = "ok" -> "return"
      [] post_outcome = "ClientError" -> IF i < MAX_RETRIES - 1 THEN "backoff" ELSE "return"
      [] OTHER -> "return"

\* send_telegram_message_with_retries takes what one call of
\* send_telegram_message did (lines 118-123)
WithRetriesTakes(result) ==
    /\ ntf_pc' = CASE result = "return" -> "returned"
                   [] result \in {"post", "backoff"} -> result
                   [] IsException(result) -> "retry_sleep"
                   [] OTHER -> "raised"
    /\ ntf_i' = IF result = "post" THEN 0 ELSE ntf_i
    /\ posts' = IF result = "post" THEN posts + 1 ELSE posts

\* send_telegram_message_with_retries is entered (line 117, attempt 1)
WithRetriesStart(order_type, kwargs) ==
    /\ ntf_order_type' = order_type
    /\ ntf_kwargs' = kwargs
    /\ ntf_attempt' = 1
    /\ sends' = 1
    /\ ntf_i' = 0
    /\ \E result \in {send_prefix(credentials, order_type, kwargs)} :
         /\ ntf_pc' = CASE result = "return" -> "returned"
                        [] result = "post" -> "post"
                        [] IsException(result) -> "retry_sleep"
                        [] OTHER -> "raised"
         /\ posts' = IF result = "post" THEN 1 ELSE 0

\* process_signal(signal, symbol, current_price, ...) up to its first
\* await: a duplicate returns, a missing price raises TypeError at line 116
\* and the handler of line 189 sends the error message
process_signal(signal, symbol, current_price) ==
    /\ ntf_pc \in {"idle", "returned"}
    /\ ntf_caller' = "process_signal"
    /\ \E signal_id \in {signal \o "_" \o symbol} :
         IF signal_id = last_sent_signal
         THEN /\ ntf_pc' = "returned"
              /\ posts' = 0
              /\ sends' = 0
              /\ UNCHANGED <<ntf_order_type, ntf_kwargs, ntf_i, ntf_attempt,
                             last_sent_signal>>
         ELSE /\ last_sent_signal' = signal_id
              /\ IF current_price = None
                 THEN WithRetriesStart("error", {"error"})
                 ELSE WithRetriesStart(SignalOrderType(signal), SignalKwargs(signal))
    /\ UNCHANGED credentials

\* a direct call of send_telegram_message_with_retries
send_telegram_message_with_retries(order_type, kwargs) ==
    /\ ntf_pc \in {"idle", "returned"}
    /\ ntf_caller' = "with_retries"
    /\ WithRetriesStart(order_type, kwargs)
    /\ UNCHANGED <<credentials, last_sent_signal>>

\* the post of line 95 ends
PostReturn(post_outcome) ==
    /\ ntf_pc = "post"
    /\ WithRetriesTakes(after_post(post_outcome, ntf_i))
    /\ UNCHANGED <<ntf_caller, ntf_order_type, ntf_kwargs, credentials,
                   last_sent_signal, ntf_attempt, sends>>

\* the sleep of line 106 ends: the next post
BackoffReturn ==
    /\ ntf_pc = "backoff"
    /\ ntf_pc' = "post"
    /\ ntf_i' = ntf_i + 1
    /\ posts' = posts + 1
    /\ UNCHANGED <<ntf_caller, ntf_order_type, ntf_kwargs, credentials,
                   last_sent_signal, ntf_attempt, sends>>

\* the sleep of line 123 ends: the next attempt, or line 124 after the last
RetrySleepReturn ==
    /\ ntf_pc = "retry_sleep"
    /\ IF ntf_attempt < MAX_RETRIES
       THEN /\ ntf_attempt' = ntf_attempt + 1
            /\ sends' = sends + 1
            /\ WithRetriesTakes(send_prefix(credentials, ntf_order_type, ntf_kwargs))
       ELSE /\ ntf_pc' = "returned"
            /\ UNCHANGED <<ntf_attempt, sends, ntf_i, posts>>
    /\ UNCHANGED <<ntf_caller, ntf_order_type, ntf_kwargs, credentials,
                   last_sent_signal>>

NotifyInit ==
    /\ ntf_pc = "idle"
    /\ ntf_caller = "none"
    /\ ntf_order_type = ""
    /\ ntf_kwargs = {}
    /\ credentials = TRUE
    /\ last_sent_signal = ""
    /\ ntf_i = 0
    /\ ntf_attempt = 0
    /\ posts = 0
    /\ sends = 0

\* =====================================================================
\* Backtester (src/src/backtesting/backtester.py)
\* =====================================================================
\* the longest price series a backtest of the model runs over
MaxBars == 4

\* money is counted in cents, prices in 1/PriceScale dollars and the position
\* in hundredths of the asset, so that position * price / PriceScale is in
\* cents
PriceScale == 10000

\* the defaults of Backtester.__init__ (line 8): initial_balance=10000,
\* commission=0.001, slippage=0.0005, trade_size=0.1
initial_balance == 1000000
CommissionPerMille == 1
SlippagePerTenThousand == 5
TradeSizePercent == 10

\* the close prices of the series, in dollars
BarCloses == {1, 2, 4}

BacktestSignals == {"buy", "strong_buy", "sell", "strong_sell", "neutral"}

VARIABLES
    \* Backtester.balance, .position, .trades, .equity_curve
    bt_balance, bt_position, trades, equity_curve,
    \* rows of the data backtest has gone through, and the close of the last
    bt_i, last_close,
    \* what backtest gave back: NoResults while it runs, the results record,
    \* or the exception that ended it
    results

backtest_vars == <<bt_balance, bt_position, trades, equity_curve, bt_i,
                   last_close, results>>

NoResults == [none |-> TRUE]

\* floor(a * b / c) without leaving 32 bits
MulDiv(a, b, c) == (a \div c) * b + ((a % c) * b) \div c

\* lines 31-34: the price after slippage
slipped(signal, price) ==
    IF signal \in {"buy", "strong_buy"}
    THEN MulDiv(price, PriceScale + SlippagePerTenThousand, PriceScale)
    ELSE IF signal \in {"sell", "strong_sell"}
    THEN MulDiv(price, PriceScale - SlippagePerTenThousand, PriceScale)
    ELSE price

\* position * price, in cents
value(position, price) == MulDiv(position, price, PriceScale)

\* mutant of buy_size: the whole balance is put into the position
buy_size_AllIn(balance, price) == MulDiv(balance, PriceScale, price)

\* line 38: position_size = (self.balance * self.trade_size) / price
buy_size(balance, price) ==
    MulDiv(MulDiv(balance, TradeSizePercent, 100), PriceScale, price)

\* line 40: position_size * price * (1 + self.commission)
buy_cost(position_size, price) ==
    MulDiv(value(position_size, price), 1000 + CommissionPerMille, 1000)

\* lines 46, 173: self.position * price * (1 - self.commission)
sell_proceeds(position, price) ==
    MulDiv(value(position, price), 1000 - CommissionPerMille, 1000)

\* line 36
Buys(signal, position) == signal \in {"buy", "strong_buy"} /\ position = 0

\* line 44
Sells(signal, position) == signal \in {"sell", "strong_sell"} /\ position > 0

\* Backtester.execute_trade for one row of backtest's loop (lines 163-169,
\* 19-55)
backtest_row(signal, close) ==
    /\ results = NoResults
    /\ bt_i < MaxBars
    /\ bt_i' = bt_i + 1
    /\ last_close' = close * PriceScale
    /\ \E price \in {slipped(signal, close * PriceScale)} :
         /\ IF Buys(signal, bt_position)
            THEN \E position_size \in {buy_size(bt_balance, price)} :
                   /\ bt_position' = position_size
                   /\ bt_balance' = bt_balance - buy_cost(position_size, price)
                   /\ trades' = Append(trades, [type |-> "buy", price |-> price,
                                                size |-> position_size])
            ELSE IF Sells(signal, bt_position)
            THEN /\ bt_balance' = bt_balance + sell_proceeds(bt_position, price)
                 /\ bt_position' = 0
                 /\ trades' = Append(trades, [type |-> "sell", price |-> price,
                                              size |-> 0])
            ELSE UNCHANGED <<bt_balance, bt_position, trades>>
         /\ equity_curve' = Append(equity_curve, bt_balance' + value(bt_position', price))
    /\ UNCHANGED results

\* lines 67-72: the sells at the odd places that beat the buy before them
RECURSIVE wins(_, _)
wins(ts, i) ==
    IF i > Len(ts) THEN 0
    ELSE (IF ts[i].price > ts[i - 1].price THEN 1 ELSE 0) + wins(ts, i + 2)

\* calculate_win_rate (lines 57-74), in whole percent
calculate_win_rate(ts) ==
    IF ts = <<>> THEN [rate |-> 0]
    ELSE IF Len(ts) \div 2 = 0 THEN ZeroDivisionError
    ELSE [rate |-> (wins(ts, 2) * 100) \div (Len(ts) \div 2)]

\* the end of backtest (lines 171-194): the open position is added to the
\* balance at the last close, then the metrics are computed; the metrics
\* that only read the equity curve are left out of the record
backtest_return ==
    /\ results = NoResults
    /\ bt_i >= 1
    /\ bt_balance' = IF bt_position > 0
                     THEN bt_balance + sell_proceeds(bt_position, last_close)
                     ELSE bt_balance
    /\ \E win_rate \in {calculate_win_rate(trades)} :
         results' = IF win_rate = ZeroDivisionError THEN ZeroDivisionError
                    ELSE [final_balance |-> bt_balance',
                          roi |-> ((bt_balance' - initial_balance) * 100) \div initial_balance,
                          win_rate |-> win_rate.rate,
                          trades |-> trades]
    /\ UNCHANGED <<bt_position, trades, equity_curve, bt_i, last_close>>

\* Backtester.__init__ (lines 8-17)
BacktestInit ==
    /\ bt_balance = initial_balance
    /\ bt_position = 0
    /\ trades = <<>>
    /\ equity_curve = <<>>
    /\ bt_i = 0
    /\ last_close = 0
    /\ results = NoResults

ExchangeFrame == UNCHANGED <<trader_vars, factory_vars, aggregator_vars, order_vars, sizing_vars, gather_vars, bot_vars, notify_vars, backtest_vars>>
TraderFrame == UNCHANGED <<exchange_vars, factory_vars, aggregator_vars, order_vars, sizing_vars, gather_vars, bot_vars, notify_vars, backtest_vars>>
FactoryFrame == UNCHANGED <<exchange_vars, trader_vars, aggregator_vars, order_vars, sizing_vars, gather_vars, bot_vars, notify_vars, backtest_vars>>
AggregatorFrame == UNCHANGED <<exchange_vars, trader_vars, factory_vars, order_vars, sizing_vars, gather_vars, bot_vars, notify_vars, backtest_vars>>
OrderFrame == UNCHANGED <<exchange_vars, trader_vars, factory_vars, aggregator_vars, sizing_vars, gather_vars, bot_vars, notify_vars, backtest_vars>>
SizingFrame == UNCHANGED <<exchange_vars, trader_vars, factory_vars, aggregator_vars, order_vars, gather_vars, bot_vars, notify_vars, backtest_vars>>
GatherFrame == UNCHANGED <<exchange_vars, trader_vars, factory_vars, aggregator_vars, order_vars, sizing_vars, bot_vars, notify_vars, backtest_vars>>
BotFrame == UNCHANGED <<trader_vars, factory_vars, aggregator_vars, order_vars, sizing_vars, gather_vars, notify_vars, backtest_vars>>
NotifyFrame == UNCHANGED <<exchange_vars, trader_vars, factory_vars, aggregator_vars, order_vars, sizing_vars, gather_vars, bot_vars, backtest_vars>>
BacktestFrame == UNCHANGED <<exchange_vars, trader_vars, factory_vars, aggregator_vars, order_vars, sizing_vars, gather_vars, bot_vars, notify_vars>>

vars == <<exchange_vars, trader_vars, factory_vars, aggregator_vars, order_vars, sizing_vars, gather_vars, bot_vars, notify_vars, backtest_vars>>

Init == ExchangeInit /\ TraderInit /\ FactoryInit /\ AggregatorInit /\ OrderInit /\ SizingInit /\ GatherInit /\ BotInit /\ NotifyInit /\ BacktestInit

Next ==
    \/ \E t \in Tasks : PlaceOrderSpot(t) /\ ExchangeFrame
    \/ \E t \in Tasks : PlaceOrderMargin(t) /\ ExchangeFrame
    \/ \E t \in Tasks : MarginHealthReturn(t) /\ ExchangeFrame
    \/ \E t \in Tasks : TickerReturn(t) /\ ExchangeFrame
    \/ \E t \in Tasks : CreateOrderReturn(t) /\ ExchangeFrame
    \/ \E t \in Tasks : Backoff(t) /\ ExchangeFrame
    \/ IsOpenQuery /\ ExchangeFrame

Spec == Init /\ [][Next]_vars

\* The exchange with every threshold ExchangeConfig accepts: the field is
\* an int that nothing validates (exchange.py:48, 93), zero included.
ConfiguredThresholds == 0..MaxThreshold

InitThresholds ==
    /\ failure_count = 0
    /\ state = "CLOSED"
    /\ threshold \in ConfiguredThresholds
    /\ exchange_class \in {"BinanceSpot", "BinanceMargin"}
    /\ pc = [t \in Tasks |-> "idle"]
    /\ attempt_number = [t \in Tasks |-> 0]
    /\ outcome = [t \in Tasks |-> "none"]
    /\ submitted = [t \in Tasks |-> 0]
    /\ open_at_start = [t \in Tasks |-> FALSE]
    /\ calls = 0
    /\ failed_attempts = 0
    /\ last_query = "unknown"
    /\ TraderInit /\ FactoryInit /\ AggregatorInit /\ OrderInit /\ SizingInit /\ GatherInit /\ BotInit /\ NotifyInit /\ BacktestInit

SpecThresholds == InitThresholds /\ [][Next]_vars

\* LiveTrader alone: the exchange object is an external collaborator whose
\* answers are inputs of execute_trade
TraderExchangeInit ==
    /\ ExchangeInit
    /\ threshold = 1
    /\ exchange_class = "BinanceSpot"

InitTrader == TraderExchangeInit /\ TraderInit /\ FactoryInit /\ AggregatorInit /\ OrderInit /\ SizingInit /\ GatherInit /\ BotInit /\ NotifyInit /\ BacktestInit

NextTrader ==
    \/ \E s \in Symbols, signal \in Signals, p \in Prices :
         execute_trade(s, signal, p) /\ TraderFrame
    \/ \E s \in Symbols, p \in Prices :
         update_trailing_stop_loss(s, p) /\ TraderFrame

SpecTrader == InitTrader /\ [][NextTrader]_vars

\* StrategyFactory alone
InitFactory == TraderExchangeInit /\ TraderInit /\ FactoryInit /\ AggregatorInit /\ OrderInit /\ SizingInit /\ GatherInit /\ BotInit /\ NotifyInit /\ BacktestInit

NextFactory ==
    \/ \E r \in Registrations, c \in StrategyClasses :
         register(r[1], r[2], c) /\ FactoryFrame
    \/ \E arg \in Arguments : create_strategy(arg) /\ FactoryFrame
    \/ \E q \in Lookups : get_strategy_type(q[1], q[2]) /\ FactoryFrame
    \/ \E q \in Lookups : is_strategy_registered(q[1], q[2]) /\ FactoryFrame

SpecFactory == InitFactory /\ [][NextFactory]_vars

\* CombinedStrategy alone, over a long run of windows: the example window,
\* one-row windows, and windows of several rows
InitAggregator == TraderExchangeInit /\ TraderInit /\ FactoryInit /\ AggregatorInit /\ OrderInit /\ SizingInit /\ GatherInit /\ BotInit /\ NotifyInit /\ BacktestInit

NextAggregator ==
    \/ generate_signals(StrongBuyExample) /\ AggregatorFrame
    \/ \E rsi \in {"sell", "neutral"}, macd \in StrongSignals,
          mac \in {"buy", "neutral"} :
         generate_signals(QuietWindow(1, <<rsi>>, macd, mac)) /\ AggregatorFrame
    \/ \E n \in 2..MaxRows :
         \E rsi_rows \in [1..n -> {"sell", "neutral"}], macd \in StrongSignals :
           generate_signals(QuietWindow(n, rsi_rows, macd, "neutral"))
           /\ AggregatorFrame

SpecAggregator == InitAggregator /\ [][NextAggregator]_vars

\* CombinedStrategy: the first call on a new aggregator, over every outcome
\* of every member
NextMembers ==
    /\ last_signals = NoSignals
    /\ \E n \in 1..MaxRows :
         \E rsi \in MemberOutcomes("RSI", n),
            macd \in MemberOutcomes("MACD", n),
            bollinger \in MemberOutcomes("Bollinger Bands", n),
            sma \in MemberOutcomes("SMA Crossover", n),
            stochastic \in MemberOutcomes("Stochastic Oscillator", n),
            mac \in MemberOutcomes("Moving Average Crossover", n) :
           /\ generate_signals(Window(n, rsi, macd, bollinger, sma, stochastic, mac))
           /\ AggregatorFrame

SpecMembers == InitAggregator /\ [][NextMembers]_vars

\* The order parameters alone: an exchange object built with any of the
\* configurations, then place_order calls that reach create_order.
InitOrderParams ==
    /\ TraderExchangeInit /\ TraderInit /\ FactoryInit /\ AggregatorInit
    /\ SizingInit /\ GatherInit /\ BotInit /\ NotifyInit /\ BacktestInit
    /\ config \in Configs
    /\ request = NoParams
    /\ order_params = NoParams
    /\ create_order_args = NoParams

NextOrderParams ==
    \E side \in Sides, amount \in Amounts, current_price \in LastPrices :
        place_order_params(side, amount, current_price) /\ OrderFrame

SpecOrderParams == InitOrderParams /\ [][NextOrderParams]_vars

\* Position sizing alone: a trader built with one of the risk percentages,
\* then calculate_position_size calls on every answer of the exchange.
InitSizing ==
    /\ TraderExchangeInit /\ TraderInit /\ FactoryInit /\ AggregatorInit
    /\ OrderInit /\ GatherInit /\ BotInit /\ NotifyInit /\ BacktestInit
    /\ risk_percentage \in RiskPercentages
    /\ last_size = NoSize

NextSizing ==
    \/ \E balance \in SizingBalances, min_order_size \in SizingMinOrderSizes,
          min_notional \in SizingMinNotionals, current_price \in Prices :
         calculate_position_size_core(balance, min_order_size, min_notional,
                                      current_price) /\ SizingFrame
    \/ \E balance \in SizingBalances, current_price \in Prices :
         calculate_position_size_legacy(balance, current_price) /\ SizingFrame

SpecSizing == InitSizing /\ [][NextSizing]_vars

\* One trade_multiple_symbols call and the tasks it starts.
InitGather == InitTrader

NextGather ==
    \/ \E keys \in SignalKeys : trade_multiple_symbols(keys) /\ GatherFrame
    \/ LatestPriceReturn /\ GatherFrame
    \/ \E s \in Symbols : TaskStep(s) /\ GatherFrame
    \/ GatherReturn /\ GatherFrame

SpecGather == InitGather /\ [][NextGather]_vars

\* The main loop of the bot over an Exchange (a BinanceMargin) with any of
\* the thresholds.
InitBot ==
    /\ Init
    /\ exchange_class = "BinanceMargin"

NextBot ==
    \/ MainLoopStart /\ BotExchangeFrame /\ BotFrame
    \/ AnalyzeReturn /\ BotExchangeFrame /\ BotFrame
    \/ BalanceReturn /\ BotExchangeFrame /\ BotFrame
    \/ PositionSizeReturn /\ BotExchangeFrame /\ BotFrame
    \/ PlaceOrderReturn /\ BotExchangeFrame /\ BotFrame
    \/ RetrainReturn /\ BotExchangeFrame /\ BotFrame
    \/ SleepReturn /\ BotExchangeFrame /\ BotFrame
    \/ ShutdownRequested /\ BotExchangeFrame /\ BotFrame
    \/ StopEventSet /\ BotExchangeFrame /\ BotFrame

SpecBot == InitBot /\ [][NextBot]_vars

\* Both executors side by side: the main loop of the bot, and a LiveTrader
\* trading one symbol at one price.
LowestPrice == CHOOSE p \in Prices : \A q \in Prices : p <= q

InitSizeGate ==
    /\ InitBot
    /\ threshold = 1

NextSizeGate ==
    \/ NextBot
    \/ \E signal \in {"buy", "sell"} :
         execute_trade("BTC/USDT", signal, LowestPrice) /\ TraderFrame

SpecSizeGate == InitSizeGate /\ [][NextSizeGate]_vars

\* The notification sink, with and without Telegram credentials in the
\* environment.
InitNotify ==
    /\ TraderExchangeInit /\ TraderInit /\ FactoryInit /\ AggregatorInit
    /\ OrderInit /\ SizingInit /\ GatherInit /\ BotInit /\ BacktestInit
    /\ ntf_pc = "idle"
    /\ ntf_caller = "none"
    /\ ntf_order_type = ""
    /\ ntf_kwargs = {}
    /\ credentials \in BOOLEAN
    /\ last_sent_signal = ""
    /\ ntf_i = 0
    /\ ntf_attempt = 0
    /\ posts = 0
    /\ sends = 0

NextNotify ==
    \/ \E signal \in NotifySignals, symbol \in Symbols, current_price \in {None, Some(100)} :
         process_signal(signal, symbol, current_price) /\ NotifyFrame
    \/ \E order_type \in OrderTypes, kwargs \in DirectKwargs :
         send_telegram_message_with_retries(order_type, kwargs) /\ NotifyFrame
    \/ \E post_outcome \in PostOutcomes : PostReturn(post_outcome) /\ NotifyFrame
    \/ BackoffReturn /\ NotifyFrame
    \/ RetrySleepReturn /\ NotifyFrame

SpecNotify == InitNotify /\ [][NextNotify]_vars

\* One backtest of a fresh Backtester with its default parameters over
\* every series of up to MaxBars closes and signals.
InitBacktest == InitTrader

NextBacktest ==
    \/ \E signal \in BacktestSignals, close \in BarCloses :
         backtest_row(signal, close) /\ BacktestFrame
    \/ backtest_return /\ BacktestFrame

SpecBacktest == InitBacktest /\ [][NextBacktest]_vars

\* =====================================================================
\* Properties of the exchange layer (checked under Spec)
\* =====================================================================
FailureOutcomes == {"RetryError", "ExchangeError"}

\* C1: once failure_count has reached threshold the breaker is open, and an
\* open breaker stays open over every step (record_failure, a successful
\* order, an is_open query): OPEN never goes back to CLOSED.
C1_OpenStaysOpen ==
    /\ [](failure_count >= threshold => is_open(state))
    /\ [][is_open(state) => is_open(state')]_vars

\* C1 witness: failures kept being recorded past the threshold and a query
\* was answered while the breaker was open
C1_Witness ==
    /\ is_open(state)
    /\ failure_count > threshold
    /\ last_query = "open"

\* C2: a place_order call that started while the breaker was open makes no
\* create_order call on any attempt, and when it ends it ends with a failure
\* handed to its caller.
C2_OpenRefusesOrders ==
    \A t \in Tasks :
        open_at_start[t] =>
            /\ submitted[t] = 0
            /\ pc[t] # "create_order"
            /\ pc[t] = "done" => outcome[t] \in FailureOutcomes

\* C2 witness: a call that started with the breaker open ran all its
\* attempts and ended with RetryError
C2_Witness ==
    \E t \in Tasks :
        /\ open_at_start[t]
        /\ pc[t] = "done"
        /\ outcome[t] = "RetryError"
        /\ attempt_number[t] = StopAfterAttempt

\* C3: failure_count equals the number of submission attempts that ended
\* with an exception (each one recorded exactly once), and a step in which
\* an attempt succeeds leaves failure_count unchanged.
C3_EachFailureRecordedOnce ==
    /\ [](failure_count = failed_attempts)
    /\ [][\A t \in Tasks :
            (pc[t] = "create_order" /\ pc'[t] = "done"
                /\ outcome'[t] \in OrderResults)
            => failure_count' = failure_count]_vars

\* C3 witness: an order went through on a later attempt, after failures of
\* the same and of other calls were recorded
C3_Witness ==
    \E t \in Tasks :
        /\ pc[t] = "done"
        /\ outcome[t] = "filled"
        /\ attempt_number[t] > 1
        /\ failure_count >= 2

\* C4: one place_order call makes at most 3 attempts (so at most 3
\* create_order calls); it never waits for a 4th attempt; it ends either
\* with the exchange's result of a successful attempt or with a failure, and
\* RetryError comes exactly after the 3rd failed attempt.
C4_BoundedRetries ==
    \A t \in Tasks :
        /\ attempt_number[t] <= StopAfterAttempt
        /\ submitted[t] <= attempt_number[t]
        /\ pc[t] = "backoff" => attempt_number[t] < StopAfterAttempt
        /\ pc[t] = "done" => outcome[t] \in OrderResults \cup FailureOutcomes
        /\ (pc[t] = "done" /\ outcome[t] = "RetryError")
              => attempt_number[t] = StopAfterAttempt

\* C4 witness: a call whose three attempts each reached create_order and
\* failed, ending with RetryError
C4_Witness ==
    \E t \in Tasks :
        /\ pc[t] = "done"
        /\ outcome[t] = "RetryError"
        /\ submitted[t] = StopAfterAttempt

\* =====================================================================
\* Properties of LiveTrader (checked under SpecTrader)
\* =====================================================================
\* answers of the order call that are no fill confirmation: no order sent,
\* None, an empty result, a result without 'filled', an exception
NotAFill == {"not_sent", "None", "empty", "no_filled_key", "raise"}

DenotedIds(arg) ==
    IF arg.kind = "StrategyConfig" THEN {arg.id}
    ELSE {i \in ConfigIds : to_json(i) = arg}

\* a config that resolution must accept: a finite tree in which every config
\* is enabled, registered, and carries parameters its schema accepts
ValidConfig(id, reg) ==
    /\ ~ReachesCycle(id)
    /\ \A c \in Reachable(id) :
          /\ Heap[c].enabled
          /\ KeyOf(Heap[c].name, Heap[c].version) \in DOMAIN reg
          /\ Validates(reg[KeyOf(Heap[c].name, Heap[c].version)].param_model,
                       Heap[c].parameters.fields)

ValidArg(arg, reg) == \E i \in DenotedIds(arg) : ValidConfig(i, reg)

\* the field-by-field content of a valid argument's config
Content(arg) == to_dict(CHOOSE i \in DenotedIds(arg) : TRUE)

Resolved(call) == call.op = "create_strategy" /\ ValidArg(call.arg, registry)

\* C6: resolving a valid config returns an instance; resolving it again
\* returns that same instance without constructing another one; a config
\* that differs in some field resolves to a different instance.
C6_SameInstanceTwice ==
    Resolved(last_call) =>
        /\ last_call.result.kind = "return"
        /\ (Resolved(prev_call) /\ prev_call.result.kind = "return")
              => (Content(prev_call.arg) = Content(last_call.arg)
                    <=> prev_call.result.instance = last_call.result.instance)

C8_FailureNonPartial ==
    [][(last_call'.op = "create_strategy" /\ last_call'.result.kind = "raise")
        => (cache' = cache /\ created' = created
            /\ last_call'.result.instance = 0)]_vars

\* C8 witness: a resolution failed on a strategy that is not registered,
\* right after one that failed on a registered one, and nothing is cached
C8_Witness ==
    /\ last_call.op = "create_strategy"
    /\ last_call.result = Raise("StrategyError")
    /\ prev_call.op = "create_strategy"
    /\ prev_call.result = Raise("AttributeError")
    /\ cache = <<>>

\* a config with enabled = false at the top or at some dependency position
HasDisabled(arg) ==
    \E i \in DenotedIds(arg) : \E c \in Reachable(i) : ~Heap[c].enabled

\* C9: resolving a config that is disabled at the top level or at any
\* dependency position fails with DisabledDependencyError.
C9_DisabledRejected ==
    (last_call.op = "create_strategy" /\ HasDisabled(last_call.arg))
        => last_call.result = Raise("DisabledDependencyError")

\* C10: resolving a config whose dependency chain reaches the config itself
\* ends, and ends with CyclicDependencyError.
C10_CycleRejected ==
    (last_call.op = "create_strategy"
        /\ \E i \in DenotedIds(last_call.arg) : Cyclic(i))
        => last_call.result = Raise("CyclicDependencyError")

\* an argument whose parameters the schema registered for its (name,
\* version) does not accept: a field outside its bounds or an unknown field
InvalidParameters(arg, reg) ==
    IF arg.kind = "StrategyConfig"
    THEN /\ KeyOf(Heap[arg.id].name, Heap[arg.id].version) \in DOMAIN reg
         /\ ~Validates(reg[KeyOf(Heap[arg.id].name, Heap[arg.id].version)].param_model,
                       Heap[arg.id].parameters.fields)
    ELSE /\ arg.json
         /\ KeyOf(arg.doc.name, arg.doc.version) \in DOMAIN reg
         /\ ~Validates(reg[KeyOf(arg.doc.name, arg.doc.version)].param_model,
                       arg.doc.parameters)

\* C11: resolving a config whose parameters do not pass the schema
\* registered for its (name, version) fails with InvalidParameterError.
C11_InvalidParametersRejected ==
    (last_call.op = "create_strategy" /\ InvalidParameters(last_call.arg, registry))
        => last_call.result = Raise("InvalidParameterError")

C13_LookupIffRegistered ==
    /\ [](last_call.op = "get_strategy_type" =>
            /\ IF KeyOf(last_call.arg.name, last_call.arg.version) \in DOMAIN registry
               THEN /\ last_call.result.kind = "return"
                    /\ last_call.result.value =
                         registry[KeyOf(last_call.arg.name, last_call.arg.version)]
               ELSE last_call.result = Raise("StrategyError")
            /\ (prev_call.op = "is_strategy_registered"
                  /\ prev_call.arg = last_call.arg)
                 => (prev_call.result.value <=> last_call.result.kind = "return"))
    /\ [][last_call'.op \in {"get_strategy_type", "is_strategy_registered"}
            => registry' = registry]_vars

\* C13 witness: a name registered under one version was looked up under
\* another: is_strategy_registered answered false and the lookup failed
C13_Witness ==
    /\ last_call.op = "get_strategy_type"
    /\ last_call.arg = [name |-> "atr_filter", version |-> "1.0.0"]
    /\ last_call.result = Raise("StrategyError")
    /\ prev_call.op = "is_strategy_registered"
    /\ prev_call.arg = last_call.arg
    /\ ~prev_call.result.value
    /\ KeyOf("atr_filter", "1.2.0") \in DOMAIN registry

\* =====================================================================
\* Properties of CombinedStrategy (checked under SpecAggregator, and
\* under SpecMembers for the member votes)
\* =====================================================================
\* a weight strictly between the strong thresholds
NonStrong(w) == -strong_signal_threshold < w /\ w < strong_signal_threshold

\* the rows of the last call whose weight went into the history
PushedRows ==
    {i \in DOMAIN last_signals.total_weights : NonStrong(last_signals.total_weights[i])}

\* the last of them: the rows after it were strong and left the history
\* alone, so signal_history is the history its decision was taken on
LastPushed == CHOOSE i \in PushedRows : \A j \in PushedRows : j <= i

Positives(h) == Cardinality({i \in DOMAIN h : h[i] > 0})
Negatives(h) == Cardinality({i \in DOMAIN h : h[i] < 0})

\* C14: every row whose total weight is >= 3 is decided strong_buy and
\* every row whose total weight is <= -3 strong_sell, whatever the history
\* holds; member signals [strong_buy, strong_buy, buy] total 8 and give
\* strong_buy.
C14_StrongBypassesHistory ==
    /\ \A i \in DOMAIN last_signals.total_weights :
          /\ last_signals.total_weights[i] >= 3
                => last_signals.final_signals[i] = "strong_buy"
          /\ last_signals.total_weights[i] <= -3
                => last_signals.final_signals[i] = "strong_sell"
    /\ last_signals.data = StrongBuyExample
          => /\ last_signals.total_weights = <<8>>
             /\ last_signals.final_signals = <<"strong_buy">>

\* C14 witness: the example window was decided strong_buy on a full
\* history of negative weights
C14_Witness ==
    /\ last_signals.data = StrongBuyExample
    /\ last_signals.final_signals = <<"strong_buy">>
    /\ Len(signal_history) = history_length
    /\ \A i \in DOMAIN signal_history : signal_history[i] < 0

\* C15: a non-strong weight is pushed onto the history, and the decision is
\* buy if the positive entries are more than half of the history, sell if
\* the negative entries are, neutral otherwise; on a full history that is
\* more than 2 of the 5 entries, and on the history [1, 1, 1, -1, 1] the
\* decision is buy.
C15_MajorityDecides ==
    PushedRows # {} =>
        /\ signal_history # <<>>
        /\ signal_history[Len(signal_history)] = last_signals.total_weights[LastPushed]
        /\ last_signals.final_signals[LastPushed] =
              IF 2 * Positives(signal_history) > Len(signal_history) THEN "buy"
              ELSE IF 2 * Negatives(signal_history) > Len(signal_history) THEN "sell"
              ELSE "neutral"
        /\ Len(signal_history) = history_length =>
              /\ last_signals.final_signals[LastPushed] = "buy"
                    <=> Positives(signal_history) > history_length \div 2
              /\ last_signals.final_signals[LastPushed] = "sell"
                    <=> Negatives(signal_history) > history_length \div 2
        /\ signal_history = <<1, 1, 1, -1, 1>>
              => last_signals.final_signals[LastPushed] = "buy"

\* C15 witness: the fifth of five cycles with weights 1, 1, 1, -1, 1 was
\* decided buy
C15_Witness ==
    /\ signal_history = <<1, 1, 1, -1, 1>>
    /\ last_signals.total_weights = <<1>>
    /\ last_signals.final_signals = <<"buy">>

\* C16: while the history holds fewer than history_length weights the
\* majority is taken over the entries it holds: a decision is buy exactly
\* when the positive entries are more than half of them (sell likewise), so
\* the first non-strong weight alone decides buy when it is > 0 and sell
\* when it is < 0.
C16_ShortHistoryMajority ==
    (PushedRows # {} /\ Len(signal_history) < history_length) =>
        /\ Len(signal_history) = 1 =>
              /\ last_signals.total_weights[LastPushed] > 0
                    => last_signals.final_signals[LastPushed] = "buy"
              /\ last_signals.total_weights[LastPushed] < 0
                    => last_signals.final_signals[LastPushed] = "sell"
        /\ last_signals.final_signals[LastPushed] = "buy"
              <=> 2 * Positives(signal_history) > Len(signal_history)
        /\ last_signals.final_signals[LastPushed] = "sell"
              <=> 2 * Negatives(signal_history) > Len(signal_history)

\* C16 witness: the first weight a new aggregator pushed was positive and
\* the decision was buy
C16_Witness ==
    /\ Len(signal_history) = 1
    /\ signal_history[1] > 0
    /\ last_signals.data.rows = 1
    /\ last_signals.final_signals = <<"buy">>

Decisions == {"strong_buy", "buy", "neutral", "sell", "strong_sell"}

\* the members that returned from generate_signals, in evaluation order
Returned(window) ==
    SelectSeq(Strategies, LAMBDA name : window.out[name].kind # "raise")

\* the signal a member that returned gave for row i
SignalAt(signals, i) ==
    IF signals.kind = "scalar" THEN signals.values[1] ELSE signals.values[i]

\* C17: whichever members raise, each row's total weight is the sum of the
\* weights of the members that returned (a member that raised adds 0), and
\* the call returns a decision for every row.
C17_ErrorIsNeutral ==
    last_signals # NoSignals =>
        /\ Len(last_signals.total_weights) = last_signals.data.rows
        /\ Len(last_signals.final_signals) = last_signals.data.rows
        /\ \A i \in 1..last_signals.data.rows :
              /\ last_signals.final_signals[i] \in Decisions
              /\ last_signals.total_weights[i] =
                    Sum([k \in 1..Len(Returned(last_signals.data)) |->
                           WeightOf(SignalAt(
                              last_signals.data.out[Returned(last_signals.data)[k]], i))])

\* C17 witness: RSI raised, MACD voted strong_buy, and the call returned
\* strong_buy on MACD's vote
C17_Witness ==
    /\ last_signals.data.rows = 1
    /\ last_signals.data.out["RSI"] = Raised
    /\ last_signals.data.out["MACD"] = Scalar("strong_buy")
    /\ last_signals.total_weights = <<3>>
    /\ last_signals.final_signals = <<"strong_buy">>

\* how many members' signals_df entry for row i is the signal v
Votes(window, i, v) ==
    Cardinality({k \in DOMAIN Strategies : Cell(window.out[Strategies[k]], i) = v})

\* other evaluation orders of the members: the order of the code with any
\* two members exchanged, and the reverse order
Swapped(order, a, b) ==
    [k \in DOMAIN order |->
        IF k = a THEN order[b] ELSE IF k = b THEN order[a] ELSE order[k]]

Orders ==
    {Swapped(Strategies, a, b) : a, b \in DOMAIN Strategies}
    \cup {[k \in DOMAIN Strategies |-> Strategies[Len(Strategies) + 1 - k]]}

\* C18: each row's total weight is 3 per strong_buy, 2 per buy, -2 per
\* sell, -3 per strong_sell and 0 for neutral, hold and anything else,
\* however the votes are spread over the members; and evaluating the
\* members with any two of them exchanged, or in reverse, gives the same
\* total weights and the same decisions.
C18_OrderIndependentSum ==
    last_signals # NoSignals =>
        /\ \A i \in 1..last_signals.data.rows :
              last_signals.total_weights[i] =
                  3 * Votes(last_signals.data, i, "strong_buy")
                  + 2 * Votes(last_signals.data, i, "buy")
                  - 2 * Votes(last_signals.data, i, "sell")
                  - 3 * Votes(last_signals.data, i, "strong_sell")
        /\ \A order \in Orders :
              /\ total_weights(order, last_signals.data) = last_signals.total_weights
              /\ RunRows(<<>>, total_weights(order, last_signals.data), 1, <<>>).final_signals
                    = last_signals.final_signals

\* C18 witness: a row on which Bollinger said hold, RSI gave None, MACD
\* strong_buy and the crossover sell: total weight 1
C18_Witness ==
    /\ last_signals.data.rows = 1
    /\ last_signals.data.out["Bollinger Bands"] = Series(<<"hold">>)
    /\ last_signals.data.out["RSI"] = Scalar("None")
    /\ last_signals.data.out["MACD"] = Scalar("strong_buy")
    /\ last_signals.data.out["Moving Average Crossover"] = Scalar("sell")
    /\ last_signals.total_weights = <<1>>

\* the amount place_order would send: the requested amount less the fee
\* expressed in the base asset
AmountAfterFee == order_params.original_amount - order_params.fee \div order_params.price

\* C20: the amount sent to the exchange is between 0 and the requested
\* amount, and when the fee exceeds the requested amount the OrderParams
\* amount is 0 and create_order is not called.
C20_AmountWithinRequest ==
    /\ create_order_args # NoParams =>
          /\ 0 <= create_order_args.amount
          /\ create_order_args.amount <= request.amount
    /\ (order_params \notin {NoParams, ZeroDivisionError} /\ AmountAfterFee < 0) =>
          /\ order_params.amount = 0
          /\ create_order_args = NoParams

\* the last place_order call returned from _calculate_order_params
ParamsReturned == order_params \notin {NoParams, ZeroDivisionError}

\* C21: the OrderParams returned carry price = last * (1 + slippage) for a
\* buy and last * (1 - slippage) for a sell, fee = amount * price * fee_rate,
\* amount = requested - fee / price and original_amount = requested; the buy
\* price is not below and the sell price not above the last price; and
\* (buy, 1.0, last 100, slippage 0.001, fee_rate 0.001) gives price 100.1,
\* fee 0.1001, amount 0.999.
C21_OrderParamsValues ==
    ParamsReturned =>
        /\ request.side = "buy" =>
              /\ order_params.price = request.last * (RateScale + config.slippage)
              /\ order_params.price >= request.last * RateScale
        /\ request.side = "sell" =>
              /\ order_params.price = request.last * (RateScale - config.slippage)
              /\ order_params.price <= request.last * RateScale
        /\ order_params.fee =
              (request.amount \div RateScale) * order_params.price * config.fee_rate
        /\ order_params.amount * order_params.price =
              request.amount * order_params.price - order_params.fee
        /\ order_params.original_amount = request.amount
        /\ (config = DefaultConfig /\ request = [side |-> "buy", amount |-> 1000, last |-> 100])
              => order_params = [amount |-> 999, price |-> 100100, fee |-> 100100,
                                 original_amount |-> 1000]

\* C21 witness: the example call was made under the default rates and
\* returned price 100.1 and amount 0.999
C21_Witness ==
    /\ config = DefaultConfig
    /\ request = [side |-> "buy", amount |-> 1000, last |-> 100]
    /\ ParamsReturned
    /\ order_params.price = 100100
    /\ order_params.amount = 999

\* the last call was a core calculate_position_size on a valid balance
CoreSized == last_size.version = "core" /\ last_size.balance # None

\* the inputs of the sizing as the code sees them
SizedRaw == risk_scaled_size(risk_percentage, Val(last_size.balance), last_size.current_price)
SizedMinNotional == min_notional_or_fallback(last_size.min_notional)
SizedMinOrderSize == min_order_size_or_fallback(last_size.min_order_size)

\* C22: the core size is balance * risk / price, raised to
\* min_notional / price when its notional is below min_notional, and then to
\* min_order_size at least; so every size returned on a valid balance has a
\* notional of at least min_notional and is at least min_order_size; and
\* balance 5, risk 0.02, min_notional 10, price 100 give 0.1.
C22_SizeMeetsMinimums ==
    CoreSized =>
        /\ SizedRaw * last_size.current_price * RiskScale =
              Val(last_size.balance) * risk_percentage * QtyScale
        /\ last_size.size =
              IF SizedRaw * last_size.current_price < SizedMinNotional * QtyScale
              THEN Max((SizedMinNotional * QtyScale) \div last_size.current_price,
                       SizedMinOrderSize)
              ELSE Max(SizedRaw, SizedMinOrderSize)
        /\ last_size.size * last_size.current_price >= SizedMinNotional * QtyScale
        /\ last_size.size >= SizedMinOrderSize
        /\ (/\ risk_percentage = 2
            /\ last_size.balance = Some(5)
            /\ last_size.min_notional = Some(10)
            /\ last_size.min_order_size = None
            /\ last_size.current_price = 100) => last_size.size = 10000

\* C22 witness: the example call returned 0.1
C22_Witness ==
    /\ CoreSized
    /\ risk_percentage = 2
    /\ last_size.balance = Some(5)
    /\ last_size.min_notional = Some(10)
    /\ last_size.min_order_size = None
    /\ last_size.current_price = 100
    /\ last_size.size = 10000

\* C23: a positive size returned by the core version never has a notional
\* above the available balance, and the size is 0 when the balance is 0.
C23_NoSizeBeyondBalance ==
    CoreSized =>
        /\ last_size.size > 0 =>
              last_size.size * last_size.current_price
                 <= Val(last_size.balance) * QtyScale
        /\ Val(last_size.balance) = 0 => last_size.size = 0

\* the order of the step was answered with a fill confirmation
OrderConfirmed(op) == op.order \in {"filled", "filled_null"}

\* C24: the quantity of a symbol is never negative; a buy order is sent only
\* for a flat symbol, a sell order only for a long one and for the whole
\* quantity held; a buy filled with a positive quantity makes the symbol
\* long, a confirmed sell sets the quantity to 0 and entry price and
\* trailing stop to None; and the quantity changes in no other way than
\* flat -> long on a buy and long -> flat on a sell.
C24_FlatLongFlat ==
    /\ [](\A s \in Symbols : positions[s] >= 0)
    /\ [][/\ last_op'.side = "buy" => positions[last_op'.symbol] = 0
          /\ last_op'.side = "sell" =>
                /\ positions[last_op'.symbol] > 0
                /\ last_op'.amount = positions[last_op'.symbol]
          /\ (last_op'.side = "buy" /\ last_op'.order = "filled" /\ last_op'.filled > 0) =>
                /\ positions'[last_op'.symbol] = last_op'.filled
                /\ positions'[last_op'.symbol] > 0
          /\ (last_op'.side = "sell" /\ OrderConfirmed(last_op')) =>
                /\ positions'[last_op'.symbol] = 0
                /\ entry_prices'[last_op'.symbol] = None
                /\ trailing_stop_loss'[last_op'.symbol] = None
          /\ \A s \in Symbols :
                positions'[s] # positions[s] =>
                   /\ s = last_op'.symbol
                   /\ OrderConfirmed(last_op')
                   /\ \/ positions[s] = 0 /\ positions'[s] > 0 /\ last_op'.side = "buy"
                      \/ positions[s] > 0 /\ positions'[s] = 0 /\ last_op'.side = "sell"
         ]_vars

\* C24 witness: a held quantity was sold whole on a confirmed sell and the
\* symbol is flat again with no entry price and no stop
C24_Witness ==
    /\ last_op.op = "execute_trade"
    /\ last_op.side = "sell"
    /\ last_op.order = "filled"
    /\ last_op.amount > 0
    /\ positions[last_op.symbol] = 0
    /\ entry_prices[last_op.symbol] = None
    /\ trailing_stop_loss[last_op.symbol] = None

\* the call of the step was given a positive size by calculate_position_size
Sized == last_trade'.position_size > 0

\* the step sent a sell order for all that the symbol held
SoldWhole ==
    /\ last_op'.side = "sell"
    /\ last_op'.amount = positions[last_op'.symbol]

\* a confirmed order moved the symbol along flat -> long -> flat
FillMoves ==
    /\ (last_op'.side = "buy" /\ last_op'.order = "filled" /\ last_op'.filled > 0)
          => positions[last_op'.symbol] = 0 /\ positions'[last_op'.symbol] > 0
    /\ (last_op'.side = "sell" /\ OrderConfirmed(last_op'))
          => positions[last_op'.symbol] > 0 /\ positions'[last_op'.symbol] = 0

C26_StopOnlyRises ==
    [][/\ \A s \in Symbols :
             (positions[s] > 0 /\ positions'[s] > 0) =>
                /\ trailing_stop_loss[s] # None
                /\ trailing_stop_loss'[s] # None
                /\ Val(trailing_stop_loss'[s]) >= Val(trailing_stop_loss[s])
       /\ last_op'.op = "update_trailing_stop_loss" =>
             /\ UNCHANGED <<positions, entry_prices>>
             /\ \A s \in Symbols :
                   trailing_stop_loss'[s] # trailing_stop_loss[s] =>
                      /\ s = last_op'.symbol
                      /\ positions[s] > 0
                      /\ \E price \in Prices :
                            trailing_stop_loss'[s] = Some((price * 98) \div 100)
                      /\ \/ trailing_stop_loss[s] = None
                         \/ Val(trailing_stop_loss'[s]) > Val(trailing_stop_loss[s])
             /\ positions[last_op'.symbol] = 0 => UNCHANGED trailing_stop_loss
      ]_vars

\* C26 witness: the stop of a symbol bought at 50 was raised to 98 % of the
\* price 200 by an update
C26_Witness ==
    /\ last_op.op = "update_trailing_stop_loss"
    /\ positions[last_op.symbol] > 0
    /\ entry_prices[last_op.symbol] = Some(50)
    /\ trailing_stop_loss[last_op.symbol] = Some(196)

\* C27: once trade_multiple_symbols has handed control back, by returning
\* or by raising, no execute_trade task it started is still running.
C27_AllTasksJoined ==
    tms_pc \in {"returned", "raised"} =>
        \A s \in Symbols : ~Running(coroutines[s])

\* C28: under every interleaving of the place_order tasks failure_count is
\* the initial 0 plus the number of record_failure calls made, every
\* failing attempt adds exactly one to it whatever the other tasks are
\* suspended in, and the breaker is open exactly when that number has
\* reached the threshold.
C28_NoLostFailure ==
    /\ [](/\ failure_count = 0 + failed_attempts
          /\ is_open(state) <=> failed_attempts >= threshold)
    /\ [][failed_attempts' # failed_attempts =>
             /\ failed_attempts' = failed_attempts + 1
             /\ failure_count' = failure_count + 1
             /\ is_open(state') <=> failure_count + 1 >= threshold
         ]_vars

\* C28 witness: two calls in flight at the same time each failed an attempt
\* and wait to retry; both failures are counted and opened a breaker of
\* threshold 2
C28_Witness ==
    /\ \A t \in Tasks : pc[t] = "backoff" /\ attempt_number[t] = 1
    /\ threshold = 2
    /\ failure_count = 2
    /\ is_open(state)

\* ---------------------------------------------------------------------
\* C29: once the circuit breaker is open at the top of the main loop, the
\* loop starts no further cycle: the step that leaves the top (or any step
\* taken while the loop waits there) ends the loop without starting a market
\* analysis or an order, and after the loop has ended no analysis is run and
\* no order is placed for the rest of the session.
\* ---------------------------------------------------------------------
AtLoopTop == bot_pc \in {"start", "sleep", "error_sleep"}

NothingStarted == cycles' = cycles /\ orders' = orders

C29_OpenBreakerEndsTrading ==
    [][/\ (AtLoopTop /\ is_open(state) /\ bot_pc' # bot_pc)
            => (bot_pc' = "exited" /\ NothingStarted)
       /\ bot_pc = "exited"
            => (bot_pc' = "exited" /\ NothingStarted /\ state' = state)]_vars

\* the breaker was opened by the failures of an order of this session and
\* the loop, not asked to stop and with cycles to spare, ended at its top
C29_Witness ==
    /\ bot_pc = "exited"
    /\ exit_at = "top"
    /\ is_open(state)
    /\ ~stop_event
    /\ orders >= 1
    /\ order_fate = "failed"
    /\ cycles < MaxCycles

\* ---------------------------------------------------------------------
\* C30: the loop is cancellable between cycles and not mid-order: it never
\* ends while an order submission is in flight; when the loop has exited,
\* the last order submission has run to completion or to its reported
\* failure.
\* ---------------------------------------------------------------------
C30_OrderRunsToItsEnd ==
    bot_pc = "exited" =>
        /\ exit_at # "place_order"
        /\ order_fate \in {"none", "completed", "failed"}

\* ---------------------------------------------------------------------
\* C31: a failure of the notification sink never fails the caller: whatever
\* a send attempt hits (missing credentials, HTTP error, unexpected
\* exception, a message that cannot be formatted), process_signal and
\* send_telegram_message_with_retries never end by raising, and one call
\* makes at most MAX_RETRIES posts and at most MAX_RETRIES calls of
\* send_telegram_message; once returned, the call is over.
\* ---------------------------------------------------------------------
C31_SinkNeverRaises ==
    /\ ntf_pc # "raised"
    /\ posts <= MAX_RETRIES
    /\ sends <= MAX_RETRIES
    /\ ntf_pc \in {"post", "backoff"} => (sends = 1 /\ posts = ntf_i + 1)

\* process_signal returned after the last of MAX_RETRIES posts failed
C31_Witness ==
    /\ ntf_pc = "returned"
    /\ ntf_caller = "process_signal"
    /\ credentials
    /\ posts = MAX_RETRIES
    /\ ntf_i = MAX_RETRIES - 1

\* ---------------------------------------------------------------------
\* C32: for a Backtester with its default parameters, over any series of
\* signals and positive prices, the cash balance is positive after every
\* trade, and the final_balance that backtest reports is positive.
\* ---------------------------------------------------------------------
Reported == results \notin {NoResults, ZeroDivisionError}

C32_BalanceStaysPositive ==
    /\ bt_balance > 0
    /\ Reported => results.final_balance > 0

\* a series like the one of test_backtester (buy, sell, buy) was reported
\* with the last position still open
C32_Witness ==
    /\ Reported
    /\ Len(trades) = 3
    /\ bt_position > 0
    /\ results.final_balance > 0

\* ---------------------------------------------------------------------
\* C40: backtest returns a results record for every signal sequence over a
\* non-empty price series (a division by zero in calculate_win_rate never
\* ends it), and the executed trades alternate buy, sell, buy, ... starting
\* with a buy.
\* ---------------------------------------------------------------------
C40_BacktestAlwaysReports ==
    /\ results # ZeroDivisionError
    /\ \A k \in 1..Len(trades) :
         trades[k].type = IF k % 2 = 1 THEN "buy" ELSE "sell"

\* ---------------------------------------------------------------------
\* C33: one generate_signals call on a data window changes the history at
\* most once: it pushes the call's total weight when that weight lies
\* strictly between the strong thresholds, leaves the history as it was
\* when the decision is strong, and never pushes more than one entry.
\* ---------------------------------------------------------------------
Strong(weight) == weight >= strong_signal_threshold \/ weight <= -strong_signal_threshold

CallWeight == last_signals'.total_weights[Len(last_signals'.total_weights)]

C33_OnePushPerCall ==
    [][signal_history' =
         IF Strong(CallWeight) THEN signal_history
         ELSE IF Len(signal_history) < history_length
         THEN Append(signal_history, CallWeight)
         ELSE Append(Tail(signal_history), CallWeight)]_vars

\* ---------------------------------------------------------------------
\* C34: the history never holds more than history_length (5) entries, and
\* after the rows of a call are decided it holds exactly the most recent
\* non-strong weights, in arrival order: what it held before followed by
\* the non-strong weights of the call, cut from the old end to the last
\* history_length entries.
\* ---------------------------------------------------------------------
NotStrong(weight) == ~Strong(weight)

Arrived == signal_history \o SelectSeq(last_signals'.total_weights, NotStrong)

C34_BoundedFifo ==
    [][/\ Len(signal_history') <= history_length
       /\ Len(signal_history') = IF Len(Arrived) < history_length
                                 THEN Len(Arrived) ELSE history_length
       /\ \A k \in 1..Len(signal_history') :
            signal_history'[k] = Arrived[Len(Arrived) - Len(signal_history') + k]]_vars

\* a full history of differing weights lost its oldest entry to a new one
C34_Witness ==
    /\ Len(signal_history) = history_length
    /\ signal_history[1] # signal_history[history_length]
    /\ signal_history[1] # signal_history[2]
    /\ last_signals.final_signals # <<>>
    /\ last_signals.final_signals[Len(last_signals.final_signals)]
         \in {"buy", "sell", "neutral"}

\* ---------------------------------------------------------------------
\* C37: the positive-majority and the negative-majority condition are never
\* both true of the history, so the decision among buy, sell and neutral
\* is the same whichever condition is tested first, and every decision is
\* one of strong_buy, buy, neutral, sell, strong_sell.
\* ---------------------------------------------------------------------
C37_TrendsExclusive ==
    /\ ~(positive_trend(signal_history) /\ negative_trend(signal_history))
    /\ (IF positive_trend(signal_history) THEN "buy"
        ELSE IF negative_trend(signal_history) THEN "sell" ELSE "neutral")
       = (IF negative_trend(signal_history) THEN "sell"
          ELSE IF positive_trend(signal_history) THEN "buy" ELSE "neutral")
    /\ \A k \in DOMAIN last_signals.final_signals :
         last_signals.final_signals[k]
            \in {"strong_buy", "buy", "neutral", "sell", "strong_sell"}

\* a history with weights of both signs and neither in the majority was
\* decided neutral
C37_Witness ==
    /\ Positives(signal_history) >= 1
    /\ Negatives(signal_history) >= 1
    /\ ~positive_trend(signal_history)
    /\ ~negative_trend(signal_history)
    /\ last_signals.final_signals # <<>>
    /\ last_signals.final_signals[Len(last_signals.final_signals)] = "neutral"

\* ---------------------------------------------------------------------
\* C35: in every reachable state of the circuit breaker, the initial one
\* included and whatever threshold it was configured with, the state is
\* OPEN exactly when failure_count >= threshold; failure_count starts at 0
\* and is never negative.
\* ---------------------------------------------------------------------
C35_OpenIffThresholdReached ==
    /\ failure_count >= 0
    /\ (state = "OPEN") <=> (failure_count >= threshold)

\* ---------------------------------------------------------------------
\* C36: under every interleaving of the place_order tasks that share the
\* breaker, no task calls create_order in a state where the breaker is
\* open: a task that passed the is_open check and was suspended in the
\* price fetch does not submit once another task has opened the breaker.
\* ---------------------------------------------------------------------
C36_NoSubmitWhileOpen ==
    [][\A t \in Tasks :
         (pc[t] = "fetch_ticker" /\ pc'[t] = "create_order") => ~is_open(state)]_vars

\* ---------------------------------------------------------------------
\* C38: in every reachable state of LiveTrader and for every symbol the
\* three position fields agree: the quantity is 0 exactly when the entry
\* price is null, and exactly when the trailing stop is null (also after a
\* buy whose fill confirmation reports a filled quantity of 0).
\* ---------------------------------------------------------------------
C38_PositionFieldsAgree ==
    \A s \in Symbols :
       /\ (positions[s] = 0) <=> (entry_prices[s] = None)
       /\ (positions[s] = 0) <=> (trailing_stop_loss[s] = None)

\* ---------------------------------------------------------------------
\* C39: when the computed position size is <= 0, no order is submitted and
\* nothing of the position, the trade record or the metrics changes:
\* LiveTrader.execute_trade leaves quantity, entry price and trailing stop
\* as they were and sends nothing, and TradingBot._execute_trade goes on to
\* no place_order, counts no order and no trade; the bot calls place_order
\* only with a size above 0.
\* ---------------------------------------------------------------------
TraderSizedOut ==
    /\ last_trade'.signal # "none"
    /\ last_trade'.position_size <= 0

BotSizedOut ==
    /\ bot_pc = "position_size"
    /\ bot_pc' # "exited"
    /\ size' # None
    /\ Val(size') <= 0

C39_NoOrderWithoutSize ==
    [][/\ TraderSizedOut =>
            /\ UNCHANGED <<positions, entry_prices, trailing_stop_loss>>
            /\ last_op' = last_op \/ last_op'.order = "not_sent"
       /\ BotSizedOut =>
            /\ bot_pc' # "place_order"
            /\ UNCHANGED <<orders, order_fate, trades_total, failure_count, state>>
       /\ (bot_pc # "place_order" /\ bot_pc' = "place_order") =>
            (size' # None /\ Val(size') > 0)]_vars

\* both executors have computed a size of 0 and sent nothing: the trader on
\* a buy signal, the bot in a cycle that went on to its sleep
C39_Witness ==
    /\ last_trade.signal = "buy"
    /\ last_trade.position_size = 0
    /\ last_op.order = "not_sent"
    /\ size = Some(0)
    /\ bot_pc = "sleep"
    /\ orders = 0
    /\ trades_total = 0

====
